---------------------------- MODULE Spec2Model ----------------------------
(***************************************************************************)
(* A model of the tree-walking Lox interpreter: the Environment scope      *)
(* chain, LoxFunction closures and the Interpreter's Visit methods, as an  *)
(* abstract machine.  The Go call stack is the sequence kont of frames    *)
(* (one per method activation that waits for a sub-evaluation), control   *)
(* is what the interpreter does next, heap holds every Environment ever   *)
(* allocated (an *Environment is an index into heap, 0 is the nil         *)
(* pointer).                                                               *)
(***************************************************************************)
EXTENDS Integers, Sequences, FiniteSets, TLC

VARIABLES
    prog,         \* the statements handed to Interpret: [name, a, b, nest]
    heap,         \* Seq of Environment: [enclosing, values]
    globals,      \* Interpreter.globals
    environment,  \* Interpreter.environment
    control,      \* [c |-> "exec", stmt] | [c |-> "eval", expr] |
                  \* [c |-> "ret", val] | [c |-> "panic", val, at]
    kont,         \* the Go call stack, innermost activation last
    output,       \* the lines written by fmt.Println
    status,       \* "running" | "done" | "fatal" (log.Fatal) | "panic"
    nextFn,       \* identity of the next *LoxFunction allocated
    scanner,      \* the Scanner of run: [source, tokens, start, current, line]
    pc,           \* where run is: "ScanTokens" | "Parse" | "Interpret" | "done"
    parser,       \* the Parser of run: [tokens, current]
    parsed,       \* the statements Parse has collected so far
    reported,     \* the syntax errors the Parser has written: [line, message]
    runs          \* the calls of run made so far

vars == <<prog, heap, globals, environment, control, kont, output, status, nextFn,
          scanner, pc, parser, parsed, reported, runs>>

\* The state of the Parser and what it has produced.
parserVars == <<parser, parsed, reported>>
\* What belongs to run and runPrompt and not to the Interpreter.
runVars == <<parserVars, runs, scanner, pc, prog>>

---------------------------------------------------------------------------
(* Bounds of the model.                                                    *)

\* Number literals of the input programs range over 0..MaxVal.
MaxVal == 2
\* Clock.call returns one of 0..MaxClock.
MaxClock == 1
\* Statements are nested in at most MaxNest blocks, ifs and loops.
MaxNest == 2

---------------------------------------------------------------------------
(* Runtime values: Go's interface{} holding nil, float64, string, bool,    *)
(* *LoxFunction, *Clock; a statement result may also be a *ReturnError.    *)

Nil == [t |-> "nil"]
Num(n) == [t |-> "num", n |-> n]
Str(s) == [t |-> "str", s |-> s]
Bool(b) == [t |-> "bool", b |-> b]
ClockValue == [t |-> "clock"]
LoxFunction(id, declaration, closure) ==
    [t |-> "fun", id |-> id, declaration |-> declaration, closure |-> closure]
ReturnError(value) == [t |-> "ReturnError", value |-> value]

\* What a helper yields when it ends in log.Fatal(ReportExit(...)).
Fatal(msg) == [t |-> "fatal", msg |-> msg]
\* What a helper yields when it dereferences a nil pointer.
NilDeref == [t |-> "nilderef"]

---------------------------------------------------------------------------
(* The AST: expression and statement nodes, data only.                     *)

NoExpr == [e |-> "nil"]
NoStmt == [s |-> "nil"]
NoToken == ""

LiteralExpr(value) == [e |-> "Literal", value |-> value]
VariableExpr(name) == [e |-> "Variable", name |-> name]
AssignExpr(name, value) == [e |-> "Assign", name |-> name, value |-> value]
GroupingExpr(expression) == [e |-> "Grouping", expression |-> expression]
UnaryExpr(operator, right) == [e |-> "Unary", operator |-> operator, right |-> right]
BinaryExpr(left, operator, right) ==
    [e |-> "Binary", left |-> left, operator |-> operator, right |-> right]
LogicalExpr(left, operator, right) ==
    [e |-> "Logical", left |-> left, operator |-> operator, right |-> right]
CallExpr(callee, arguments) ==
    [e |-> "Call", callee |-> callee, arguments |-> arguments]

ExpressionStmt(expression) == [s |-> "Expression", expression |-> expression]
PrintStmt(expression) == [s |-> "Print", expression |-> expression]
VarStmt(name, initializer) == [s |-> "Var", name |-> name, initializer |-> initializer]
BlockStmt(statements) == [s |-> "Block", statements |-> statements]
IfStmt(condition, thenBranch, elseBranch) ==
    [s |-> "If", condition |-> condition, thenBranch |-> thenBranch,
     elseBranch |-> elseBranch]
WhileStmt(condition, body) == [s |-> "While", condition |-> condition, body |-> body]
FunctionStmt(name, params, body) ==
    [s |-> "Function", name |-> name, params |-> params, body |-> body]
ReturnStmt(value) == [s |-> "Return", value |-> value]
BreakStmt == [s |-> "Break"]

---------------------------------------------------------------------------
(* Environment.                                                            *)

NewEnvironment == [enclosing |-> 0, values |-> [x \in {} |-> Nil]]

NewEnclosingEnvironment(enclosing) == [NewEnvironment EXCEPT !.enclosing = enclosing]

\* Mutant of define: the binding is made in the outermost scope of the chain.
RECURSIVE define_global(_, _, _, _)
define_global(h, e, name, value) ==
    IF h[e].enclosing # 0
    THEN define_global(h, h[e].enclosing, name, value)
    ELSE [h EXCEPT ![e].values =
            [x \in DOMAIN @ \cup {name} |-> IF x = name THEN value ELSE @[x]]]

\* e.values[name] = value
define(h, e, name, value) ==
    [h EXCEPT ![e].values =
        [x \in DOMAIN @ \cup {name} |-> IF x = name THEN value ELSE @[x]]]

RECURSIVE get(_, _, _)
get(h, e, name) ==
    IF name \in DOMAIN h[e].values
    THEN h[e].values[name]
    ELSE IF h[e].enclosing # 0
         THEN get(h, h[e].enclosing, name)
         ELSE Fatal("Undefined variable")

\* Mutant of assign: a name that no scope binds becomes a global.
RECURSIVE assign_implicitGlobal(_, _, _, _)
assign_implicitGlobal(h, e, name, value) ==
    IF name \in DOMAIN h[e].values
    THEN [fatal |-> FALSE, heap |-> [h EXCEPT ![e].values[name] = value]]
    ELSE IF h[e].enclosing # 0
         THEN assign_implicitGlobal(h, h[e].enclosing, name, value)
         ELSE [fatal |-> FALSE,
               heap |-> [h EXCEPT ![e].values =
                    [x \in DOMAIN @ \cup {name} |-> IF x = name THEN value ELSE @[x]]]]

\* Mutant of assign: the walk does not stop at the first scope that binds name.
RECURSIVE assign_everyScope(_, _, _, _)
assign_everyScope(h, e, name, value) ==
    LET here == IF name \in DOMAIN h[e].values
                THEN [h EXCEPT ![e].values[name] = value] ELSE h
    IN  IF h[e].enclosing # 0
        THEN LET r == assign_everyScope(here, h[e].enclosing, name, value)
             IN  [fatal |-> r.fatal /\ name \notin DOMAIN h[e].values, heap |-> r.heap]
        ELSE [fatal |-> name \notin DOMAIN h[e].values, heap |-> here]

\* The heap after e.assign(name, value), and whether it ended in log.Fatal.
RECURSIVE assign(_, _, _, _)
assign(h, e, name, value) ==
    IF name \in DOMAIN h[e].values
    THEN [fatal |-> FALSE, heap |-> [h EXCEPT ![e].values[name] = value]]
    ELSE IF h[e].enclosing # 0
         THEN assign(h, h[e].enclosing, name, value)
         ELSE [fatal |-> TRUE, heap |-> h]

---------------------------------------------------------------------------
(* The Interpreter's pure helpers.  A float64 is modelled by an integer;   *)
(* the programs checked here stay within the integers.                     *)

DigitText(d) ==
    CASE d = 0 -> "0" [] d = 1 -> "1" [] d = 2 -> "2" [] d = 3 -> "3" [] d = 4 -> "4"
      [] d = 5 -> "5" [] d = 6 -> "6" [] d = 7 -> "7" [] d = 8 -> "8" [] d = 9 -> "9"

RECURSIVE NatText(_)
NatText(n) == IF n < 10 THEN DigitText(n) ELSE NatText(n \div 10) \o DigitText(n % 10)

\* fmt.Sprintf("%v", v) of a float64 that holds an integer
SprintfV(n) == IF n < 0 THEN "-" \o NatText(-n) ELSE NatText(n)

\* fmt.Sprintf("%f", v) of a float64 that holds an integer
SprintfF(n) == SprintfV(n) \o ".000000"

\* isTruthy where the number 0 and the empty string are falsey as well.
isTruthy_zeroFalsey(object) ==
    IF object.t = "nil" THEN FALSE
    ELSE IF object.t = "bool" THEN object.b
    ELSE IF object.t = "num" THEN object.n # 0
    ELSE IF object.t = "str" THEN object.s # ""
    ELSE TRUE

isTruthy(object) ==
    IF object.t = "nil" THEN FALSE
    ELSE IF object.t = "bool" THEN object.b
    ELSE TRUE

\* isEqual that compares a number with a string by the number's text.
isEqual_coerce(a, b) ==
    IF a.t = "nil" /\ b.t = "nil" THEN TRUE
    ELSE IF a.t = "nil" \/ b.t = "nil" THEN FALSE
    ELSE IF a.t = "num"
         THEN (IF b.t = "num" THEN a.n = b.n
               ELSE IF b.t = "str" THEN SprintfV(a.n) = b.s ELSE FALSE)
    ELSE IF a.t = "str"
         THEN (IF b.t = "str" THEN a.s = b.s
               ELSE IF b.t = "num" THEN a.s = SprintfV(b.n) ELSE FALSE)
    ELSE IF a.t = "bool" THEN (IF b.t = "bool" THEN a.b = b.b ELSE FALSE)
    ELSE /\ a.t = b.t
         /\ a.t = "fun" => a.id = b.id

isEqual(a, b) ==
    IF a.t = "nil" /\ b.t = "nil" THEN TRUE
    ELSE IF a.t = "nil" \/ b.t = "nil" THEN FALSE
    ELSE IF a.t = "num" THEN (IF b.t = "num" THEN a.n = b.n ELSE FALSE)
    ELSE IF a.t = "str" THEN (IF b.t = "str" THEN a.s = b.s ELSE FALSE)
    ELSE IF a.t = "bool" THEN (IF b.t = "bool" THEN a.b = b.b ELSE FALSE)
    ELSE \* a == b on two interface values: the same pointer
         /\ a.t = b.t
         /\ a.t = "fun" => a.id = b.id

\* TRUE when the check passes, FALSE when it ends in log.Fatal.
checkNumberOperand(operand) == operand.t = "num"

checkNumberOperands(left, right) == left.t = "num" /\ right.t = "num"

HasSuffix(text, suffix) ==
    /\ Len(text) >= Len(suffix)
    /\ SubSeq(text, Len(text) - Len(suffix) + 1, Len(text)) = suffix

\* The text printed for a value; Fatal for nil when the printed expression is
\* a variable, a nil-pointer dereference of token for nil otherwise.
stringify(token, object) ==
    IF object.t = "nil"
    THEN IF token = NoToken THEN NilDeref ELSE Fatal("Variable is undefined.")
    ELSE IF object.t = "num"
         THEN LET text == SprintfF(object.n)
              IN  IF HasSuffix(text, ".000000")
                  THEN Str(SubSeq(text, 1, Len(text) - 7))
                  ELSE Str(text)
    ELSE IF object.t = "str" THEN Str(object.s)
    ELSE IF object.t = "bool" THEN Str(IF object.b THEN "true" ELSE "false")
    ELSE IF object.t = "fun" THEN Str("<fn " \o object.declaration.name \o ">")
    ELSE Str("<native fn>")

\* The value of the switch of VisitUnaryExpr, or Fatal.
UnaryOp(operator, right) ==
    IF operator = "BANG" THEN Bool(~isTruthy(right))
    ELSE IF operator = "MINUS"
         THEN IF checkNumberOperand(right) THEN Num(-right.n)
              ELSE Fatal("Operand must be a number.")
    ELSE Nil

\* left / right for two non-zero numbers: exact when right divides left,
\* otherwise the fraction is kept unreduced.
Quotient(l, r) ==
    IF l % r = 0 THEN Num(l \div r) ELSE [t |-> "num", n |-> l, over |-> r]

Comparison(operator, left, right, holds) ==
    IF checkNumberOperands(left, right) THEN Bool(holds)
    ELSE Fatal("Operands must be numbers.")

\* PLUS where a string and a number never add (the rule of two numbers or
\* two strings).
PlusOp_sameTypeOnly(left, right) ==
    IF left.t = "num" /\ right.t = "num" THEN Num(left.n + right.n)
    ELSE IF left.t = "str" /\ right.t = "str" THEN Str(left.s \o right.s)
    ELSE Fatal("Operands must be two numbers or two strings.")

\* case PLUS of VisitBinaryExpr
PlusOp(left, right) ==
    IF left.t = "num" /\ right.t = "num" THEN Num(left.n + right.n)
    ELSE IF left.t = "str" /\ right.t = "str" THEN Str(left.s \o right.s)
    ELSE IF left.t = "str" /\ right.t = "num"
         THEN Str(left.s \o SprintfV(right.n))
    ELSE IF left.t = "num" /\ right.t = "str"
         THEN Str(SprintfV(left.n) \o right.s)
    ELSE Fatal("Operands must be two numbers or two strings.")

\* SLASH that rejects a zero divisor only.
SlashOp_zeroDivisorOnly(left, right) ==
    IF ~checkNumberOperands(left, right) THEN Fatal("Operands must be numbers.")
    ELSE IF right.n = 0 THEN Fatal("Division by 0 is not allowed.")
    ELSE Quotient(left.n, right.n)

\* case SLASH of VisitBinaryExpr
SlashOp(left, right) ==
    IF ~checkNumberOperands(left, right) THEN Fatal("Operands must be numbers.")
    ELSE IF left.n = 0 \/ right.n = 0 THEN Fatal("Division by 0 is not allowed.")
    ELSE Quotient(left.n, right.n)

\* The value of the switch of VisitBinaryExpr, or Fatal.
BinaryOp(operator, left, right) ==
    CASE operator = "MINUS" ->
            IF checkNumberOperands(left, right) THEN Num(left.n - right.n)
            ELSE Fatal("Operands must be numbers.")
      [] operator = "PLUS" ->
            PlusOp(left, right)
      [] operator = "SLASH" ->
            SlashOp(left, right)
      [] operator = "STAR" ->
            IF checkNumberOperands(left, right) THEN Num(left.n * right.n)
            ELSE Fatal("Operands must be numbers.")
      [] operator = "GREATER" ->
            Comparison(operator, left, right, left.n > right.n)
      [] operator = "GREATER_EQUAL" ->
            Comparison(operator, left, right, left.n >= right.n)
      [] operator = "LESS" ->
            Comparison(operator, left, right, left.n < right.n)
      [] operator = "LESS_EQUAL" ->
            Comparison(operator, left, right, left.n <= right.n)
      [] operator = "BANG_EQUAL" -> Bool(~isEqual(left, right))
      [] operator = "EQUAL_EQUAL" -> Bool(isEqual(left, right))
      [] OTHER -> Nil

\* LoxCallable: the values that implement arity() and call()
isCallable(callee) == callee.t \in {"fun", "clock"}

arity(function) ==
    IF function.t = "fun" THEN Len(function.declaration.params) ELSE 0

---------------------------------------------------------------------------
(* The machine.  A method that ends in `return g(...)` hands control to g  *)
(* without leaving a frame (VisitBlockStmt, VisitExpressionStmt,           *)
(* VisitGroupingExpr, the branches of VisitIfStmt, the right operand of    *)
(* VisitLogicalExpr, function.call in VisitCallExpr): such a frame has no  *)
(* deferred function and passes the result on unchanged.                   *)

Top == kont[Len(kont)]
Pop == SubSeq(kont, 1, Len(kont) - 1)
Push(frame) == Append(kont, frame)
ReplaceTop(frame) == [kont EXCEPT ![Len(kont)] = frame]

Exec(stmt) == [c |-> "exec", stmt |-> stmt]
Eval(expr) == [c |-> "eval", expr |-> expr]
Ret(val) == [c |-> "ret", val |-> val]
Panic(val, at) == [c |-> "panic", val |-> val, at |-> at]

Executing(kind) == status = "running" /\ control.c = "exec" /\ control.stmt.s = kind
Evaluating(kind) == status = "running" /\ control.c = "eval" /\ control.expr.e = kind
Returning(frame) ==
    status = "running" /\ control.c = "ret" /\ Len(kont) > 0 /\ Top.k = frame

\* Mutant of LogFatal: the message is written and the failing method returns
\* nil to its caller.
LogFatal_return ==
    /\ control' = Ret(Nil)
    /\ kont' = IF control.c = "ret" THEN Pop ELSE kont
    /\ UNCHANGED <<runVars, heap, globals, environment, output, status, nextFn>>

\* log.Fatal: the message is written and the process exits, nothing else runs.
LogFatal ==
    /\ status' = "fatal"
    /\ UNCHANGED <<runVars, heap, globals, environment, control, kont, output, nextFn>>

\* The for loop of Interpret: the result of each statement is stored and not
\* looked at.
Interpret ==
    /\ Returning("Interpret")
    /\ IF Top.idx = Len(Top.statements)
       THEN /\ status' = "done"
            /\ UNCHANGED <<control, kont>>
       ELSE /\ kont' = ReplaceTop([Top EXCEPT !.idx = @ + 1])
            /\ control' = Exec(Top.statements[Top.idx + 1])
            /\ UNCHANGED status
    /\ UNCHANGED <<runVars, heap, globals, environment, output, nextFn>>

\* The frame of executeBlock(statements, environment), entered with
\* i.environment = previous.
BlockFrame(statements, env, previous) ==
    [k |-> "executeBlock", statements |-> statements, idx |-> 0,
     environment |-> env, previous |-> previous]

\* The for loop of executeBlock; on return the deferred function restores
\* i.environment.
executeBlock ==
    /\ Returning("executeBlock")
    /\ IF control.val.t = "ReturnError" \/ Top.idx = Len(Top.statements)
       THEN /\ kont' = Pop
            /\ environment' = Top.previous
            /\ UNCHANGED control
       ELSE /\ kont' = ReplaceTop([Top EXCEPT !.idx = @ + 1])
            /\ control' = Exec(Top.statements[Top.idx + 1])
            /\ UNCHANGED environment
    /\ UNCHANGED <<runVars, heap, globals, output, status, nextFn>>

VisitBlockStmt ==
    /\ Executing("Block")
    /\ heap' = Append(heap, NewEnclosingEnvironment(environment))
    /\ environment' = Len(heap) + 1
    /\ kont' = Push(BlockFrame(control.stmt.statements, Len(heap) + 1, environment))
    /\ control' = Ret(Nil)
    /\ UNCHANGED <<runVars, globals, output, status, nextFn>>

VisitExpressionStmt ==
    /\ Executing("Expression")
    /\ control' = Eval(control.stmt.expression)
    /\ UNCHANGED <<runVars, heap, globals, environment, kont, output, status, nextFn>>

VisitPrintStmt ==
    /\ Executing("Print")
    /\ kont' = Push([k |-> "VisitPrintStmt", stmt |-> control.stmt])
    /\ control' = Eval(control.stmt.expression)
    /\ UNCHANGED <<runVars, heap, globals, environment, output, status, nextFn>>

PrintToken(stmt) ==
    IF stmt.expression.e = "Variable" THEN stmt.expression.name ELSE NoToken

VisitPrintStmt_Println ==
    /\ Returning("VisitPrintStmt")
    /\ LET text == stringify(PrintToken(Top.stmt), control.val)
       IN  IF text.t = "fatal" THEN LogFatal
           ELSE IF text.t = "nilderef"
           THEN /\ control' = Panic("runtime error", Len(kont))
                /\ UNCHANGED <<runVars, heap, globals, environment, kont, output,
                               status, nextFn>>
           ELSE /\ output' = Append(output, text.s)
                /\ kont' = Pop
                /\ control' = Ret(Nil)
                /\ UNCHANGED <<runVars, heap, globals, environment, status, nextFn>>

VisitVarStmt ==
    /\ Executing("Var")
    /\ IF control.stmt.initializer = NoExpr
       THEN /\ heap' = define(heap, environment, control.stmt.name, Nil)
            /\ control' = Ret(Nil)
            /\ UNCHANGED kont
       ELSE /\ kont' = Push([k |-> "VisitVarStmt", stmt |-> control.stmt])
            /\ control' = Eval(control.stmt.initializer)
            /\ UNCHANGED heap
    /\ UNCHANGED <<runVars, globals, environment, output, status, nextFn>>

VisitVarStmt_define ==
    /\ Returning("VisitVarStmt")
    /\ heap' = define(heap, environment, Top.stmt.name, control.val)
    /\ kont' = Pop
    /\ control' = Ret(Nil)
    /\ UNCHANGED <<runVars, globals, environment, output, status, nextFn>>

\* NewLoxFunction(stmt, i.environment)
NewLoxFunction(declaration, closure) == LoxFunction(nextFn, declaration, closure)

\* Mutant of VisitFunctionStmt: the function captures a copy of the current
\* environment.
VisitFunctionStmt_copy ==
    /\ Executing("Function")
    /\ heap' = define(Append(heap, heap[environment]), environment, control.stmt.name,
                      NewLoxFunction(control.stmt, Len(heap) + 1))
    /\ nextFn' = nextFn + 1
    /\ control' = Ret(Nil)
    /\ UNCHANGED <<runVars, globals, environment, kont, output, status>>

VisitFunctionStmt ==
    /\ Executing("Function")
    /\ heap' = define(heap, environment, control.stmt.name,
                      NewLoxFunction(control.stmt, environment))
    /\ nextFn' = nextFn + 1
    /\ control' = Ret(Nil)
    /\ UNCHANGED <<runVars, globals, environment, kont, output, status>>

VisitIfStmt ==
    /\ Executing("If")
    /\ kont' = Push([k |-> "VisitIfStmt", stmt |-> control.stmt])
    /\ control' = Eval(control.stmt.condition)
    /\ UNCHANGED <<runVars, heap, globals, environment, output, status, nextFn>>

VisitIfStmt_branch ==
    /\ Returning("VisitIfStmt")
    /\ kont' = Pop
    /\ control' = IF isTruthy(control.val) THEN Exec(Top.stmt.thenBranch)
                  ELSE IF Top.stmt.elseBranch # NoStmt THEN Exec(Top.stmt.elseBranch)
                  ELSE Ret(Nil)
    /\ UNCHANGED <<runVars, heap, globals, environment, output, status, nextFn>>

\* VisitWhileStmt up to the first evaluation of the condition.  The frame
\* carries the deferred recover (see VisitWhileStmt_defer).
VisitWhileStmt ==
    /\ Executing("While")
    /\ kont' = Push([k |-> "VisitWhileStmt", stmt |-> control.stmt,
                     inBody |-> FALSE, result |-> Nil])
    /\ control' = Eval(control.stmt.condition)
    /\ UNCHANGED <<runVars, heap, globals, environment, output, status, nextFn>>

\* for i.isTruthy(i.evaluate(stmt.condition)) { ... }; return result
VisitWhileStmt_condition ==
    /\ Returning("VisitWhileStmt")
    /\ ~Top.inBody
    /\ IF isTruthy(control.val)
       THEN /\ kont' = ReplaceTop([Top EXCEPT !.inBody = TRUE])
            /\ control' = Exec(Top.stmt.body)
       ELSE /\ kont' = Pop
            /\ control' = Ret(Top.result)
    /\ UNCHANGED <<runVars, heap, globals, environment, output, status, nextFn>>

\* result = i.execute(stmt.body), then the condition again
VisitWhileStmt_body ==
    /\ Returning("VisitWhileStmt")
    /\ Top.inBody
    /\ kont' = ReplaceTop([Top EXCEPT !.inBody = FALSE, !.result = control.val])
    /\ control' = Eval(Top.stmt.condition)
    /\ UNCHANGED <<runVars, heap, globals, environment, output, status, nextFn>>

VisitReturnStmt ==
    /\ Executing("Return")
    /\ IF control.stmt.value = NoExpr
       THEN /\ control' = Ret(ReturnError(Nil))
            /\ UNCHANGED kont
       ELSE /\ kont' = Push([k |-> "VisitReturnStmt"])
            /\ control' = Eval(control.stmt.value)
    /\ UNCHANGED <<runVars, heap, globals, environment, output, status, nextFn>>

VisitReturnStmt_value ==
    /\ Returning("VisitReturnStmt")
    /\ kont' = Pop
    /\ control' = Ret(ReturnError(control.val))
    /\ UNCHANGED <<runVars, heap, globals, environment, output, status, nextFn>>

\* panic(&BreakError{}): the deferred functions of the stack run, innermost
\* first, while the stack is kept; at is the frame whose deferred function
\* runs next.
\* Mutant of VisitBreakStmt: a break with no loop to end does nothing.
VisitBreakStmt_noopOutsideLoop ==
    /\ Executing("Break")
    /\ control' = IF \E j \in 1..Len(kont) : kont[j].k = "VisitWhileStmt"
                  THEN Panic("BreakError", Len(kont))
                  ELSE Ret(Nil)
    /\ UNCHANGED <<runVars, heap, globals, environment, kont, output, status, nextFn>>

VisitBreakStmt ==
    /\ Executing("Break")
    /\ control' = Panic("BreakError", Len(kont))
    /\ UNCHANGED <<runVars, heap, globals, environment, kont, output, status, nextFn>>

---------------------------------------------------------------------------
(* A panic in flight.                                                      *)

Panicking == status = "running" /\ control.c = "panic"

\* Mutant of executeBlock_defer: the environment is restored on a normal
\* return only, not while a panic unwinds.
executeBlock_defer_noRestore ==
    /\ Panicking
    /\ control.at > 0
    /\ kont[control.at].k = "executeBlock"
    /\ control' = [control EXCEPT !.at = @ - 1]
    /\ UNCHANGED <<runVars, heap, globals, environment, kont, output, status, nextFn>>

\* The deferred function of executeBlock: i.environment = previous.
executeBlock_defer ==
    /\ Panicking
    /\ control.at > 0
    /\ kont[control.at].k = "executeBlock"
    /\ environment' = kont[control.at].previous
    /\ control' = [control EXCEPT !.at = @ - 1]
    /\ UNCHANGED <<runVars, heap, globals, kont, output, status, nextFn>>

\* Mutant of VisitWhileStmt_defer: the recovered loop goes on with its next
\* iteration.
VisitWhileStmt_defer_continue ==
    /\ Panicking
    /\ control.at > 0
    /\ kont[control.at].k = "VisitWhileStmt"
    /\ IF control.val = "BreakError"
       THEN /\ kont' = Append(SubSeq(kont, 1, control.at - 1),
                              [kont[control.at] EXCEPT !.inBody = FALSE])
            /\ control' = Eval(kont[control.at].stmt.condition)
       ELSE /\ control' = [control EXCEPT !.at = @ - 1]
            /\ UNCHANGED kont
    /\ UNCHANGED <<runVars, heap, globals, environment, output, status, nextFn>>

\* The deferred function of VisitWhileStmt: recover(); a *BreakError ends the
\* panic and VisitWhileStmt returns its zero result, anything else panics on.
VisitWhileStmt_defer ==
    /\ Panicking
    /\ control.at > 0
    /\ kont[control.at].k = "VisitWhileStmt"
    /\ IF control.val = "BreakError"
       THEN /\ kont' = SubSeq(kont, 1, control.at - 1)
            /\ control' = Ret(Nil)
       ELSE /\ control' = [control EXCEPT !.at = @ - 1]
            /\ UNCHANGED kont
    /\ UNCHANGED <<runVars, heap, globals, environment, output, status, nextFn>>

\* A frame with no deferred function.
PanicUnwind ==
    /\ Panicking
    /\ control.at > 0
    /\ kont[control.at].k \notin {"executeBlock", "VisitWhileStmt"}
    /\ control' = [control EXCEPT !.at = @ - 1]
    /\ UNCHANGED <<runVars, heap, globals, environment, kont, output, status, nextFn>>

\* No frame recovered: the Go runtime ends the process.
PanicExit ==
    /\ Panicking
    /\ control.at = 0
    /\ status' = "panic"
    /\ UNCHANGED <<runVars, heap, globals, environment, control, kont, output, nextFn>>

---------------------------------------------------------------------------
(* Expressions.                                                            *)

VisitLiteralExpr ==
    /\ Evaluating("Literal")
    /\ control' = Ret(control.expr.value)
    /\ UNCHANGED <<runVars, heap, globals, environment, kont, output, status, nextFn>>

VisitGroupingExpr ==
    /\ Evaluating("Grouping")
    /\ control' = Eval(control.expr.expression)
    /\ UNCHANGED <<runVars, heap, globals, environment, kont, output, status, nextFn>>

VisitVariableExpr ==
    /\ Evaluating("Variable")
    /\ LET value == get(heap, environment, control.expr.name)
       IN  IF value.t = "fatal" THEN LogFatal
           ELSE /\ control' = Ret(value)
                /\ UNCHANGED <<runVars, heap, globals, environment, kont, output,
                               status, nextFn>>

VisitAssignExpr ==
    /\ Evaluating("Assign")
    /\ kont' = Push([k |-> "VisitAssignExpr", expr |-> control.expr])
    /\ control' = Eval(control.expr.value)
    /\ UNCHANGED <<runVars, heap, globals, environment, output, status, nextFn>>

VisitAssignExpr_assign ==
    /\ Returning("VisitAssignExpr")
    /\ LET r == assign(heap, environment, Top.expr.name, control.val)
       IN  IF r.fatal THEN LogFatal
           ELSE /\ heap' = r.heap
                /\ kont' = Pop
                /\ UNCHANGED <<runVars, globals, environment, control, output,
                               status, nextFn>>

VisitUnaryExpr ==
    /\ Evaluating("Unary")
    /\ kont' = Push([k |-> "VisitUnaryExpr", expr |-> control.expr])
    /\ control' = Eval(control.expr.right)
    /\ UNCHANGED <<runVars, heap, globals, environment, output, status, nextFn>>

VisitUnaryExpr_apply ==
    /\ Returning("VisitUnaryExpr")
    /\ LET value == UnaryOp(Top.expr.operator, control.val)
       IN  IF value.t = "fatal" THEN LogFatal
           ELSE /\ kont' = Pop
                /\ control' = Ret(value)
                /\ UNCHANGED <<runVars, heap, globals, environment, output, status,
                               nextFn>>

VisitBinaryExpr ==
    /\ Evaluating("Binary")
    /\ kont' = Push([k |-> "VisitBinaryExpr", expr |-> control.expr,
                     haveLeft |-> FALSE, left |-> Nil])
    /\ control' = Eval(control.expr.left)
    /\ UNCHANGED <<runVars, heap, globals, environment, output, status, nextFn>>

VisitBinaryExpr_right ==
    /\ Returning("VisitBinaryExpr")
    /\ ~Top.haveLeft
    /\ kont' = ReplaceTop([Top EXCEPT !.haveLeft = TRUE, !.left = control.val])
    /\ control' = Eval(Top.expr.right)
    /\ UNCHANGED <<runVars, heap, globals, environment, output, status, nextFn>>

VisitBinaryExpr_apply ==
    /\ Returning("VisitBinaryExpr")
    /\ Top.haveLeft
    /\ LET value == BinaryOp(Top.expr.operator, Top.left, control.val)
       IN  IF value.t = "fatal" THEN LogFatal
           ELSE /\ kont' = Pop
                /\ control' = Ret(value)
                /\ UNCHANGED <<runVars, heap, globals, environment, output, status,
                               nextFn>>

VisitLogicalExpr ==
    /\ Evaluating("Logical")
    /\ kont' = Push([k |-> "VisitLogicalExpr", expr |-> control.expr])
    /\ control' = Eval(control.expr.left)
    /\ UNCHANGED <<runVars, heap, globals, environment, output, status, nextFn>>

\* VisitLogicalExpr that answers a short circuit with the Boolean of the left
\* operand instead of the operand.
VisitLogicalExpr_left_coerce ==
    /\ Returning("VisitLogicalExpr")
    /\ kont' = Pop
    /\ control' = IF Top.expr.operator = "OR"
                  THEN (IF isTruthy(control.val) THEN Ret(Bool(TRUE))
                        ELSE Eval(Top.expr.right))
                  ELSE (IF ~isTruthy(control.val) THEN Ret(Bool(FALSE))
                        ELSE Eval(Top.expr.right))
    /\ UNCHANGED <<runVars, heap, globals, environment, output, status, nextFn>>

VisitLogicalExpr_left ==
    /\ Returning("VisitLogicalExpr")
    /\ kont' = Pop
    /\ control' = IF Top.expr.operator = "OR"
                  THEN (IF isTruthy(control.val) THEN control ELSE Eval(Top.expr.right))
                  ELSE (IF ~isTruthy(control.val) THEN control ELSE Eval(Top.expr.right))
    /\ UNCHANGED <<runVars, heap, globals, environment, output, status, nextFn>>

---------------------------------------------------------------------------
(* Calls.                                                                  *)

VisitCallExpr ==
    /\ Evaluating("Call")
    /\ kont' = Push([k |-> "VisitCallExpr", expr |-> control.expr,
                     haveCallee |-> FALSE, callee |-> Nil, arguments |-> <<>>])
    /\ control' = Eval(control.expr.callee)
    /\ UNCHANGED <<runVars, heap, globals, environment, output, status, nextFn>>

\* The frame of VisitCallExpr once the operand just evaluated is stored.
CallOperands ==
    IF ~Top.haveCallee
    THEN [Top EXCEPT !.haveCallee = TRUE, !.callee = control.val]
    ELSE [Top EXCEPT !.arguments = Append(@, control.val)]

\* for _, argument := range expr.arguments
VisitCallExpr_argument ==
    /\ Returning("VisitCallExpr")
    /\ Len(CallOperands.arguments) < Len(Top.expr.arguments)
    /\ kont' = ReplaceTop(CallOperands)
    /\ control' = Eval(Top.expr.arguments[Len(CallOperands.arguments) + 1])
    /\ UNCHANGED <<runVars, heap, globals, environment, output, status, nextFn>>

\* The callee and every argument are evaluated.
CallReady ==
    /\ Returning("VisitCallExpr")
    /\ Len(CallOperands.arguments) = Len(Top.expr.arguments)

\* Mutant of arityMismatch: only too few arguments are refused.
arityMismatch_tooFew(arguments, function) == Len(arguments) < arity(function)

\* len(arguments) != function.arity()
arityMismatch(arguments, function) == Len(arguments) # arity(function)

\* The two checks of VisitCallExpr, each ending in log.Fatal.
VisitCallExpr_check ==
    /\ CallReady
    /\ \/ ~isCallable(CallOperands.callee)
       \/ arityMismatch(CallOperands.arguments, CallOperands.callee)
    /\ LogFatal

\* Mutant of callScope: the new scope is a child of the caller's environment.
callScope_caller(f) == NewEnclosingEnvironment(environment)

\* environment := NewEnclosingEnvironment(f.closure)
callScope(f) == NewEnclosingEnvironment(f.closure)

\* environment.define(param.lexeme, arguments[i]) for every parameter
RECURSIVE bindParams(_, _, _, _, _)
bindParams(h, e, params, arguments, i) ==
    IF i > Len(params) THEN h
    ELSE bindParams(define(h, e, params[i], arguments[i]), e, params, arguments, i + 1)

\* LoxFunction.call up to the first statement of the body.
LoxFunction_call ==
    /\ CallReady
    /\ isCallable(CallOperands.callee)
    /\ ~arityMismatch(CallOperands.arguments, CallOperands.callee)
    /\ CallOperands.callee.t = "fun"
    /\ LET f == CallOperands.callee
           new == Len(heap) + 1
       IN  /\ heap' = bindParams(Append(heap, callScope(f)), new,
                                 f.declaration.params, CallOperands.arguments, 1)
           /\ kont' = Append(Append(Pop, [k |-> "LoxFunction_call", f |-> f]),
                             BlockFrame(f.declaration.body, new, environment))
           /\ environment' = new
           /\ control' = Ret(Nil)
    /\ UNCHANGED <<runVars, globals, output, status, nextFn>>

\* Mutant of LoxFunction.call: the result of executeBlock is returned as it
\* is, the *ReturnError in place of its value.
LoxFunction_call_result_wrapped ==
    /\ Returning("LoxFunction_call")
    /\ kont' = Pop
    /\ UNCHANGED <<runVars, heap, globals, environment, control, output, status, nextFn>>

\* The result of executeBlock back in LoxFunction.call.
LoxFunction_call_result ==
    /\ Returning("LoxFunction_call")
    /\ kont' = Pop
    /\ control' = IF control.val.t = "ReturnError" THEN Ret(control.val.value)
                  ELSE Ret(Nil)
    /\ UNCHANGED <<runVars, heap, globals, environment, output, status, nextFn>>

\* Clock.call: the time read is any of the model's clock values.
Clock_call ==
    /\ CallReady
    /\ isCallable(CallOperands.callee)
    /\ ~arityMismatch(CallOperands.arguments, CallOperands.callee)
    /\ CallOperands.callee.t = "clock"
    /\ \E now \in 0..MaxClock : control' = Ret(Num(now))
    /\ kont' = Pop
    /\ UNCHANGED <<runVars, heap, globals, environment, output, status, nextFn>>

---------------------------------------------------------------------------
(* The statements handed to Interpret: families of Lox programs, given as  *)
(* the AST the parser builds for the source text in the comment.           *)

\* Iterations of the counting loops of the input programs.
LoopCount == 2

N(n) == LiteralExpr(Num(n))
S(text) == LiteralExpr(Str(text))
V(name) == VariableExpr(name)
Plus(l, r) == BinaryExpr(l, "PLUS", r)
Less(l, r) == BinaryExpr(l, "LESS", r)
Call0(name) == CallExpr(V(name), <<>>)

\* { var i = 0; while (i < LoopCount) { i = i + 1; stmt } }
CountingLoop(stmt) ==
    BlockStmt(<<
        VarStmt("i", N(0)),
        WhileStmt(Less(V("i"), N(LoopCount)),
                  BlockStmt(<<ExpressionStmt(AssignExpr("i", Plus(V("i"), N(1)))),
                              stmt>>))>>)

\* stmt inside one block, if or loop
Wrap(kind, stmt) ==
    CASE kind = "block" -> BlockStmt(<<stmt>>)
      [] kind = "if" -> IfStmt(LiteralExpr(Bool(TRUE)), stmt, NoStmt)
      [] kind = "while" -> CountingLoop(stmt)

\* stmt inside the wrappers ws, ws[1] outermost
RECURSIVE Nest(_, _)
Nest(ws, stmt) == IF ws = <<>> THEN stmt ELSE Wrap(Head(ws), Nest(Tail(ws), stmt))

Kinds == {"block", "if", "while"}
Nests == UNION {[1..n -> Kinds] : n \in 0..MaxNest}
Vals == 0..MaxVal

\* fun f() { <nest> { print "body"; return a; } <nest> print "after"; return a + 1; }
\* print f();
ReturnNested(p) ==
    <<FunctionStmt("f", <<>>,
        <<Nest(p.nest, BlockStmt(<<PrintStmt(S("body")), ReturnStmt(N(p.a))>>)),
          PrintStmt(S("after")),
          ReturnStmt(N(p.a + 1))>>),
      PrintStmt(Call0("f"))>>

\* fun f() { <nest> break; <nest> print "in f"; }
\* var n = 0; while (n < LoopCount) { n = n + 1; f(); print "after call"; }
\* print "end";
BreakInFunction(p) ==
    <<FunctionStmt("f", <<>>, <<Nest(p.nest, BreakStmt), PrintStmt(S("in f"))>>),
      VarStmt("n", N(0)),
      WhileStmt(Less(V("n"), N(LoopCount)),
                BlockStmt(<<ExpressionStmt(AssignExpr("n", Plus(V("n"), N(1)))),
                            ExpressionStmt(Call0("f")),
                            PrintStmt(S("after call"))>>)),
      PrintStmt(S("end"))>>

\* var n = 0;
\* while (n < LoopCount) {
\*   n = n + 1;
\*   var m = 0;
\*   while (m < LoopCount) { m = m + 1; <nest> break; <nest> print "rest"; }
\*   print n;
\* }
\* print "end";
BreakNested(p) ==
    <<VarStmt("n", N(0)),
      WhileStmt(Less(V("n"), N(LoopCount)),
        BlockStmt(<<
            ExpressionStmt(AssignExpr("n", Plus(V("n"), N(1)))),
            VarStmt("m", N(0)),
            WhileStmt(Less(V("m"), N(LoopCount)),
                BlockStmt(<<ExpressionStmt(AssignExpr("m", Plus(V("m"), N(1)))),
                            Nest(p.nest, BreakStmt),
                            PrintStmt(S("rest"))>>)),
            PrintStmt(V("n"))>>)),
      PrintStmt(S("end"))>>

\* var x = a; fun get() { return x; } fun set(v) { x = v; return; }
\* x = b; print get(); set(a + b + 1); print x;
ClosureShared(p) ==
    <<VarStmt("x", N(p.a)),
      FunctionStmt("get", <<>>, <<ReturnStmt(V("x"))>>),
      FunctionStmt("set", <<"v">>,
        <<ExpressionStmt(AssignExpr("x", V("v"))), ReturnStmt(NoExpr)>>),
      ExpressionStmt(AssignExpr("x", N(p.b))),
      PrintStmt(Call0("get")),
      ExpressionStmt(CallExpr(V("set"), <<N(p.a + p.b + 1)>>)),
      PrintStmt(V("x"))>>

\* fun make() { var c = a; fun inc() { c = c + 1; return c; } return inc; }
\* var k = make(); print k(); print k(); var k2 = make(); print k2(); print k();
Counter(p) ==
    <<FunctionStmt("make", <<>>,
        <<VarStmt("c", N(p.a)),
          FunctionStmt("inc", <<>>,
            <<ExpressionStmt(AssignExpr("c", Plus(V("c"), N(1)))),
              ReturnStmt(V("c"))>>),
          ReturnStmt(V("inc"))>>),
      VarStmt("k", Call0("make")),
      PrintStmt(Call0("k")),
      PrintStmt(Call0("k")),
      VarStmt("k2", Call0("make")),
      PrintStmt(Call0("k2")),
      PrintStmt(Call0("k"))>>

\* var x = a; <nest> { var x = b; print x; var x = b + 1; print x; } <nest> print x;
Shadow(p) ==
    <<VarStmt("x", N(p.a)),
      Nest(p.nest, BlockStmt(<<VarStmt("x", N(p.b)),
                               PrintStmt(V("x")),
                               VarStmt("x", N(p.b + 1)),
                               PrintStmt(V("x"))>>)),
      PrintStmt(V("x"))>>

\* var x = a; <nest> { var z = b; print y; } <nest> print x;
UndefinedRead(p) ==
    <<VarStmt("x", N(p.a)),
      Nest(p.nest, BlockStmt(<<VarStmt("z", N(p.b)), PrintStmt(V("y"))>>)),
      PrintStmt(V("x"))>>

\* var x = a; <nest> { var z = b; y = 1; } <nest> print x;
UndefinedAssign(p) ==
    <<VarStmt("x", N(p.a)),
      Nest(p.nest, BlockStmt(<<VarStmt("z", N(p.b)),
                               ExpressionStmt(AssignExpr("y", N(1)))>>)),
      PrintStmt(V("x"))>>

\* var x = a; { var x = b; <nest> { var z = 0; x = a + b + 1; print x; } <nest> print x; }
\* print x;
AssignInner(p) ==
    <<VarStmt("x", N(p.a)),
      BlockStmt(<<VarStmt("x", N(p.b)),
                  Nest(p.nest, BlockStmt(<<VarStmt("z", N(0)),
                                           ExpressionStmt(AssignExpr("x", N(p.a + p.b + 1))),
                                           PrintStmt(V("x"))>>)),
                  PrintStmt(V("x"))>>),
      PrintStmt(V("x"))>>

\* fun g(p, q) { print p; print q; print y; }  { var y = a; g(a, b); }
CallerLocal(p) ==
    <<FunctionStmt("g", <<"p", "q">>,
        <<PrintStmt(V("p")), PrintStmt(V("q")), PrintStmt(V("y"))>>),
      BlockStmt(<<VarStmt("y", N(p.a)),
                  ExpressionStmt(CallExpr(V("g"), <<N(p.a), N(p.b)>>))>>)>>

\* var y = a; fun g() { return y; } <nest> { var y = b + 1 + a; print g(); } <nest>
LexicalScope(p) ==
    <<VarStmt("y", N(p.a)),
      FunctionStmt("g", <<>>, <<ReturnStmt(V("y"))>>),
      Nest(p.nest, BlockStmt(<<VarStmt("y", N(p.a + p.b + 1)),
                               PrintStmt(Call0("g"))>>))>>

\* The callee values of NotCallable, by index.
CalleeLiteral(n) ==
    CASE n = 0 -> LiteralExpr(Nil)
      [] n = 1 -> N(1)
      [] n = 2 -> S("text")
      [] OTHER -> LiteralExpr(Bool(TRUE))

\* var v = <callee a>; v(<b arguments>); print "after";
NotCallable(p) ==
    <<VarStmt("v", CalleeLiteral(p.a)),
      ExpressionStmt(CallExpr(V("v"), [i \in 1..p.b |-> N(i)])),
      PrintStmt(S("after"))>>

\* fun f(p) { print "body"; return p; }  print f(<a arguments>);  print "after";
Arity(p) ==
    <<FunctionStmt("f", <<"p">>, <<PrintStmt(S("body")), ReturnStmt(V("p"))>>),
      PrintStmt(CallExpr(V("f"), [i \in 1..p.a |-> N(i + p.b)])),
      PrintStmt(S("after"))>>

\* print clock(<a arguments>); print "after";
ClockArity(p) ==
    <<PrintStmt(CallExpr(V("clock"), [i \in 1..p.a |-> N(i)])),
      PrintStmt(S("after"))>>

\* print -(a); print !(a < b); print (a < b) or "right"; print (a < b) and "right";
\* if (a < b) print "then"; else print "else";
\* var u; <nest> print nil; <nest> print "after";    (print u; when a >= b)
Operators(p) ==
    <<PrintStmt(UnaryExpr("MINUS", GroupingExpr(N(p.a)))),
      PrintStmt(UnaryExpr("BANG", Less(N(p.a), N(p.b)))),
      PrintStmt(LogicalExpr(Less(N(p.a), N(p.b)), "OR", S("right"))),
      PrintStmt(LogicalExpr(Less(N(p.a), N(p.b)), "AND", S("right"))),
      IfStmt(Less(N(p.a), N(p.b)), PrintStmt(S("then")), PrintStmt(S("else"))),
      VarStmt("u", NoExpr),
      Nest(p.nest, PrintStmt(IF p.a < p.b THEN LiteralExpr(Nil) ELSE V("u"))),
      PrintStmt(S("after"))>>

\* var s = "text"; print -s; (a = 0)   print a - s; (a > 0)   print "after";
TypeError(p) ==
    <<VarStmt("s", S("text")),
      PrintStmt(IF p.a = 0 THEN UnaryExpr("MINUS", V("s"))
                ELSE BinaryExpr(N(p.a), "MINUS", V("s"))),
      PrintStmt(S("after"))>>

\* a = 0:  print "before"; <nest> break; <nest> print "after";
\* a = 1:  fun f() { <nest> break; <nest> print "in f"; }
\*         print "before"; f(); print "after";
BreakOutside(p) ==
    IF p.a = 0
    THEN <<PrintStmt(S("before")), Nest(p.nest, BreakStmt), PrintStmt(S("after"))>>
    ELSE <<FunctionStmt("f", <<>>, <<Nest(p.nest, BreakStmt), PrintStmt(S("in f"))>>),
           PrintStmt(S("before")),
           ExpressionStmt(Call0("f")),
           PrintStmt(S("after"))>>

\* The names the lines of a prompt session ask for.
ProbeNames == <<"clock", "x", "get", "f">>

\* print <name>;
Probe(p) == <<PrintStmt(V(ProbeNames[p.a + 1]))>>

\* The recursive calls of the input programs take arguments 0..MaxFib.
MaxFib == 10

\* fun fib(n) { if (n <= 1) return n; return fib(n - 1) + fib(n - 2); }
\* print fib(a);
Fib(p) ==
    <<FunctionStmt("fib", <<"n">>,
        <<IfStmt(BinaryExpr(V("n"), "LESS_EQUAL", N(1)), ReturnStmt(V("n")), NoStmt),
          ReturnStmt(Plus(CallExpr(V("fib"), <<BinaryExpr(V("n"), "MINUS", N(1))>>),
                          CallExpr(V("fib"), <<BinaryExpr(V("n"), "MINUS", N(2))>>)))>>),
      PrintStmt(CallExpr(V("fib"), <<N(p.a)>>))>>

\* The operand expressions of the operator programs, by index: nil, true,
\* false, "", "a", "1", clock, f, g and the numbers 0..MaxVal.
Operand(n) ==
    CASE n = 0 -> LiteralExpr(Nil)
      [] n = 1 -> LiteralExpr(Bool(TRUE))
      [] n = 2 -> LiteralExpr(Bool(FALSE))
      [] n = 3 -> S("")
      [] n = 4 -> S("a")
      [] n = 5 -> S("1")
      [] n = 6 -> V("clock")
      [] n = 7 -> V("f")
      [] n = 8 -> V("g")
      [] OTHER -> N(n - 9)

Operands == 0..(9 + MaxVal)

\* fun f() {} fun g() {} var r = <operand a> <operator> <operand b>; print "after";
BinaryPair(operator, p) ==
    <<FunctionStmt("f", <<>>, <<>>),
      FunctionStmt("g", <<>>, <<>>),
      VarStmt("r", BinaryExpr(Operand(p.a), operator, Operand(p.b))),
      PrintStmt(S("after"))>>

\* fun f() {} fun g() {} print <operand a> == <operand b>;
\* print <operand a> != <operand b>; print "after";
EqualPair(p) ==
    <<FunctionStmt("f", <<>>, <<>>),
      FunctionStmt("g", <<>>, <<>>),
      PrintStmt(BinaryExpr(Operand(p.a), "EQUAL_EQUAL", Operand(p.b))),
      PrintStmt(BinaryExpr(Operand(p.a), "BANG_EQUAL", Operand(p.b))),
      PrintStmt(S("after"))>>

\* fun f() {} fun g() {} var x = <operand a>;
\* var n = 0; var r = x or (n = 1); var m = 0; var q = x and (m = 2); print "after";
ShortCircuit(p) ==
    <<FunctionStmt("f", <<>>, <<>>),
      FunctionStmt("g", <<>>, <<>>),
      VarStmt("x", Operand(p.a)),
      VarStmt("n", N(0)),
      VarStmt("r", LogicalExpr(V("x"), "OR", GroupingExpr(AssignExpr("n", N(1))))),
      VarStmt("m", N(0)),
      VarStmt("q", LogicalExpr(V("x"), "AND", GroupingExpr(AssignExpr("m", N(2))))),
      PrintStmt(S("after"))>>

\* fun f() {} fun g() {} var x = <operand a>;
\* if (x) print "then"; else print "else";   print !x;
\* while (x) { print "loop"; x = nil; }   print "after";
Truthy(p) ==
    <<FunctionStmt("f", <<>>, <<>>),
      FunctionStmt("g", <<>>, <<>>),
      VarStmt("x", Operand(p.a)),
      IfStmt(V("x"), PrintStmt(S("then")), PrintStmt(S("else"))),
      PrintStmt(UnaryExpr("BANG", V("x"))),
      WhileStmt(V("x"),
                BlockStmt(<<PrintStmt(S("loop")),
                            ExpressionStmt(AssignExpr("x", LiteralExpr(Nil)))>>)),
      PrintStmt(S("after"))>>

\* print "before"; <nest> return a; <nest> print "after";
TopLevelReturn(p) ==
    <<PrintStmt(S("before")),
      Nest(p.nest, ReturnStmt(N(p.a))),
      PrintStmt(S("after"))>>

Input(name, as, bs, nests) ==
    {[name |-> name, a |-> a, b |-> b, nest |-> ws] : a \in as, b \in bs, ws \in nests}

Inputs ==
    Input("ReturnNested", Vals, {0}, Nests)
    \cup Input("BreakInFunction", {0}, {0}, Nests)
    \cup Input("BreakNested", {0}, {0}, Nests)
    \cup Input("ClosureShared", Vals, Vals, {<<>>})
    \cup Input("Counter", Vals, {0}, {<<>>})
    \cup Input("Shadow", Vals, Vals, Nests)
    \cup Input("UndefinedRead", Vals, {0}, Nests)
    \cup Input("UndefinedAssign", Vals, {0}, Nests)
    \cup Input("AssignInner", Vals, Vals, Nests)
    \cup Input("CallerLocal", Vals, Vals, {<<>>})
    \cup Input("LexicalScope", Vals, Vals, Nests)
    \cup Input("NotCallable", 0..3, Vals, {<<>>})
    \cup Input("Arity", Vals, Vals, {<<>>})
    \cup Input("ClockArity", Vals, {0}, {<<>>})
    \cup Input("Operators", Vals, Vals, Nests)
    \cup Input("TypeError", Vals, {0}, {<<>>})
    \cup Input("TopLevelReturn", Vals, {0}, Nests)
    \cup Input("PlusPair", Operands, Operands, {<<>>})
    \cup Input("SlashPair", Operands, Operands, {<<>>})
    \cup Input("EqualPair", Operands, Operands, {<<>>})
    \cup Input("ShortCircuit", Operands, {0}, {<<>>})
    \cup Input("Truthy", Operands, {0}, {<<>>})
    \cup Input("Fib", 0..MaxFib, {0}, {<<>>})
    \cup Input("BreakOutside", {0, 1}, {0}, Nests)

Program(p) ==
    CASE p.name = "ReturnNested" -> ReturnNested(p)
      [] p.name = "BreakInFunction" -> BreakInFunction(p)
      [] p.name = "BreakNested" -> BreakNested(p)
      [] p.name = "ClosureShared" -> ClosureShared(p)
      [] p.name = "Counter" -> Counter(p)
      [] p.name = "Shadow" -> Shadow(p)
      [] p.name = "UndefinedRead" -> UndefinedRead(p)
      [] p.name = "UndefinedAssign" -> UndefinedAssign(p)
      [] p.name = "AssignInner" -> AssignInner(p)
      [] p.name = "CallerLocal" -> CallerLocal(p)
      [] p.name = "LexicalScope" -> LexicalScope(p)
      [] p.name = "NotCallable" -> NotCallable(p)
      [] p.name = "Arity" -> Arity(p)
      [] p.name = "ClockArity" -> ClockArity(p)
      [] p.name = "Operators" -> Operators(p)
      [] p.name = "TypeError" -> TypeError(p)
      [] p.name = "TopLevelReturn" -> TopLevelReturn(p)
      [] p.name = "PlusPair" -> BinaryPair("PLUS", p)
      [] p.name = "SlashPair" -> BinaryPair("SLASH", p)
      [] p.name = "EqualPair" -> EqualPair(p)
      [] p.name = "ShortCircuit" -> ShortCircuit(p)
      [] p.name = "Truthy" -> Truthy(p)
      [] p.name = "Fib" -> Fib(p)
      [] p.name = "Probe" -> Probe(p)
      [] p.name = "BreakOutside" -> BreakOutside(p)

---------------------------------------------------------------------------
(* The Scanner.  A Go string is the sequence of its bytes, a byte is a     *)
(* string of length one, and the zero byte that peek and peekNext return  *)
(* at the end of the source is the empty string.                          *)

\* Sources are all texts of at most MaxLen characters of Alphabet and all
\* texts of at most MaxComment characters of CommentAlphabet.
MaxLen == 4
MaxComment == 6

NUL == ""

\* source[i], i counted from 0
charAt(source, i) == source[i + 1]

NewToken(tokenType, lexeme, literal, line) ==
    [tokenType |-> tokenType, lexeme |-> lexeme, literal |-> literal, line |-> line]

keywords ==
    [w \in {"and", "class", "else", "false", "for", "fun", "if", "nil", "or",
            "print", "return", "super", "this", "true", "var", "while"} |->
        CASE w = "and" -> "AND" [] w = "class" -> "CLASS" [] w = "else" -> "ELSE"
          [] w = "false" -> "FALSE" [] w = "for" -> "FOR" [] w = "fun" -> "FUN"
          [] w = "if" -> "IF" [] w = "nil" -> "NIL" [] w = "or" -> "OR"
          [] w = "print" -> "PRINT" [] w = "return" -> "RETURN"
          [] w = "super" -> "SUPER" [] w = "this" -> "THIS" [] w = "true" -> "TRUE"
          [] w = "var" -> "VAR" [] w = "while" -> "WHILE"]

NewScanner(source) ==
    [source |-> source, tokens |-> <<>>, start |-> 0, current |-> 0, line |-> 1]

isAtEnd(sc) == sc.current >= Len(sc.source)

peek(sc) == IF isAtEnd(sc) THEN NUL ELSE charAt(sc.source, sc.current)

peekNext(sc) ==
    IF sc.current + 1 >= Len(sc.source) THEN NUL ELSE charAt(sc.source, sc.current + 1)

isAlpha(c) ==
    c \in {"a", "b", "c", "d", "e", "f", "g", "h", "i", "j", "k", "l", "m", "n",
           "o", "p", "q", "r", "s", "t", "u", "v", "w", "x", "y", "z",
           "A", "B", "C", "D", "E", "F", "G", "H", "I", "J", "K", "L", "M", "N",
           "O", "P", "Q", "R", "S", "T", "U", "V", "W", "X", "Y", "Z", "_"}

isDigit(c) == c \in {"0", "1", "2", "3", "4", "5", "6", "7", "8", "9"}

isAlphaNumeric(c) == isAlpha(c) \/ isDigit(c)

\* The scanner after advance(): the cursor moves unless it is at the end.
advance(sc) ==
    IF sc.current >= Len(sc.source) THEN sc ELSE [sc EXCEPT !.current = @ + 1]

\* advanceNext() reads source[current+1]: an index out of range when only
\* one character is left.
advanceNext_panics(sc) ==
    sc.current < Len(sc.source) /\ sc.current + 1 >= Len(sc.source)

advanceNext(sc) ==
    IF sc.current >= Len(sc.source) THEN sc ELSE [sc EXCEPT !.current = @ + 2]

\* What match(expected) returns; when TRUE the cursor has moved by one.
match(sc, expected) ==
    IF isAtEnd(sc) THEN FALSE ELSE charAt(sc.source, sc.current) = expected

\* addTokenLiteral that puts the token in front of the list.
addTokenLiteral_prepend(sc, tokenType, literal) ==
    [sc EXCEPT !.tokens =
        <<NewToken(tokenType, SubSeq(sc.source, sc.start + 1, sc.current),
                   literal, sc.line)>> \o @]

addTokenLiteral(sc, tokenType, literal) ==
    [sc EXCEPT !.tokens =
        Append(@, NewToken(tokenType, SubSeq(sc.source, sc.start + 1, sc.current),
                           literal, sc.line))]

addToken(sc, tokenType) == addTokenLiteral(sc, tokenType, Nil)

\* for isAlphaNumeric(peek()) { advance() }
RECURSIVE identifierLoop(_)
identifierLoop(sc) ==
    IF isAlphaNumeric(peek(sc)) THEN identifierLoop(advance(sc)) ELSE sc

\* The bytes of a lexeme as the key of the keywords map.
RECURSIVE Text(_)
Text(bytes) == IF bytes = <<>> THEN "" ELSE Head(bytes) \o Text(Tail(bytes))

identifier(sc0) ==
    LET sc == identifierLoop(sc0)
        text == Text(SubSeq(sc.source, sc.start + 1, sc.current))
    IN  addToken(sc, IF text \in DOMAIN keywords THEN keywords[text] ELSE "IDENTIFIER")

\* for isDigit(peek()) { advance() }
RECURSIVE digitLoop(_)
digitLoop(sc) == IF isDigit(peek(sc)) THEN digitLoop(advance(sc)) ELSE sc

DigitValue(c) ==
    CASE c = "0" -> 0 [] c = "1" -> 1 [] c = "2" -> 2 [] c = "3" -> 3 [] c = "4" -> 4
      [] c = "5" -> 5 [] c = "6" -> 6 [] c = "7" -> 7 [] c = "8" -> 8 [] c = "9" -> 9

RECURSIVE ParseNat(_)
ParseNat(text) ==
    IF text = <<>> THEN 0
    ELSE 10 * ParseNat(SubSeq(text, 1, Len(text) - 1)) + DigitValue(charAt(text, Len(text) - 1))

RECURSIVE Pow10(_)
Pow10(k) == IF k = 0 THEN 1 ELSE 10 * Pow10(k - 1)

\* strconv.ParseFloat of digits with an optional fraction: the fraction is
\* kept as the digits over a power of ten.
ParseFloat(whole, fraction) ==
    IF fraction = <<>> THEN Num(ParseNat(whole))
    ELSE [t |-> "num", n |-> ParseNat(whole \o fraction), over |-> Pow10(Len(fraction))]

number(sc0) ==
    LET sc1 == digitLoop(sc0)
        hasFraction == peek(sc1) = "." /\ isDigit(peekNext(sc1))
        sc2 == IF hasFraction THEN digitLoop(advance(sc1)) ELSE sc1
        whole == SubSeq(sc1.source, sc1.start + 1, sc1.current)
        fraction == IF hasFraction THEN SubSeq(sc2.source, sc1.current + 2, sc2.current)
                    ELSE <<>>
    IN  addTokenLiteral(sc2, "NUMBER", ParseFloat(whole, fraction))

\* for peek() != '"' && !isAtEnd() { if peek() == '\n' { line++ }; advance() }
RECURSIVE stringLoop(_)
stringLoop(sc) ==
    IF peek(sc) # "\"" /\ ~isAtEnd(sc)
    THEN stringLoop(advance([sc EXCEPT !.line = IF peek(sc) = "\n" THEN @ + 1 ELSE @]))
    ELSE sc

\* for peek() != '\n' && !isAtEnd() { advance() }
RECURSIVE lineCommentLoop(_)
lineCommentLoop(sc) ==
    IF peek(sc) # "\n" /\ ~isAtEnd(sc) THEN lineCommentLoop(advance(sc)) ELSE sc

\* for (peek() != '*' && peekNext() != '/') && !isAtEnd() { advance() }
RECURSIVE blockCommentLoop(_)
blockCommentLoop(sc) ==
    IF (peek(sc) # "*" /\ peekNext(sc) # "/") /\ ~isAtEnd(sc)
    THEN blockCommentLoop(advance(sc))
    ELSE sc

Scanned(sc) == [outcome |-> "ok", scanner |-> sc]
ScanFatal(sc) == [outcome |-> "fatal", scanner |-> sc]
ScanPanic(sc) == [outcome |-> "panic", scanner |-> sc]

\* `c` followed by '=' is the token twoChars, else oneChar
operatorToken(sc, oneChar, twoChars) ==
    IF match(sc, "=") THEN Scanned(addToken(advance(sc), twoChars))
    ELSE Scanned(addToken(sc, oneChar))

\* string() that takes the rest of the source as the string when the closing
\* quote is missing.
string_toEndOfInput(sc0) ==
    LET sc == stringLoop(sc0)
    IN  IF isAtEnd(sc)
        THEN Scanned(addTokenLiteral(sc, "STRING",
                Str(SubSeq(sc.source, sc.start + 2, sc.current))))
        ELSE LET closed == advance(sc)
             IN  Scanned(addTokenLiteral(closed, "STRING",
                    Str(SubSeq(closed.source, closed.start + 2, closed.current - 1))))

\* string(): the scanner is behind the opening quote
string(sc0) ==
    LET sc == stringLoop(sc0)
    IN  IF isAtEnd(sc) THEN ScanFatal(sc)
        ELSE LET closed == advance(sc)
             IN  Scanned(addTokenLiteral(closed, "STRING",
                    Str(SubSeq(closed.source, closed.start + 2, closed.current - 1))))

\* case '/' of scanToken
slash(sc) ==
    IF match(sc, "/") THEN Scanned(lineCommentLoop(advance(sc)))
    ELSE IF match(sc, "*")
    THEN LET body == blockCommentLoop(advance(sc))
         IN  IF advanceNext_panics(body) THEN ScanPanic(body)
             ELSE Scanned(advanceNext(body))
    ELSE Scanned(addToken(sc, "SLASH"))

\* scanToken() on the scanner with start = current, not at the end
scanTokenOf(sc0) ==
    LET c == charAt(sc0.source, sc0.current)
        sc == advance(sc0)
    IN  CASE c = "(" -> Scanned(addToken(sc, "LEFT_PAREN"))
          [] c = ")" -> Scanned(addToken(sc, "RIGHT_PAREN"))
          [] c = "{" -> Scanned(addToken(sc, "LEFT_BRACE"))
          [] c = "}" -> Scanned(addToken(sc, "RIGHT_BRACE"))
          [] c = "," -> Scanned(addToken(sc, "COMMA"))
          [] c = "." -> Scanned(addToken(sc, "DOT"))
          [] c = "-" -> Scanned(addToken(sc, "MINUS"))
          [] c = "+" -> Scanned(addToken(sc, "PLUS"))
          [] c = ";" -> Scanned(addToken(sc, "SEMICOLON"))
          [] c = "*" -> Scanned(addToken(sc, "STAR"))
          [] c = "!" -> operatorToken(sc, "BANG", "BANG_EQUAL")
          [] c = "=" -> operatorToken(sc, "EQUAL", "EQUAL_EQUAL")
          [] c = "<" -> operatorToken(sc, "LESS", "LESS_EQUAL")
          [] c = ">" -> operatorToken(sc, "GREATER", "GREATER_EQUAL")
          [] c = "/" -> slash(sc)
          [] c \in {" ", "\r", "\t"} -> Scanned(sc)
          [] c = "\n" -> Scanned([sc EXCEPT !.line = @ + 1])
          [] c = "\"" -> string(sc)
          [] OTHER ->
                IF isDigit(c) THEN Scanned(number(sc))
                ELSE IF isAlpha(c) THEN Scanned(identifier(sc))
                ELSE ScanFatal(sc)

interpreterVars ==
    <<prog, heap, globals, environment, control, kont, output, nextFn>>

\* One turn of the loop of ScanTokens: start = current; scanToken().
scanToken ==
    /\ pc = "ScanTokens"
    /\ status = "running"
    /\ ~isAtEnd(scanner)
    /\ LET r == scanTokenOf([scanner EXCEPT !.start = scanner.current])
       IN  /\ scanner' = r.scanner
           /\ status' = IF r.outcome = "ok" THEN "running" ELSE r.outcome
    /\ UNCHANGED <<parserVars, runs, interpreterVars, pc>>

\* The end of ScanTokens: the EOF token is appended and the tokens returned
\* to run.
ScanTokens ==
    /\ pc = "ScanTokens"
    /\ status = "running"
    /\ isAtEnd(scanner)
    /\ scanner' = [scanner EXCEPT
                    !.tokens = Append(@, NewToken("EOF", <<>>, Nil, scanner.line))]
    /\ pc' = "Parse"
    /\ UNCHANGED <<parserVars, runs, interpreterVars, status>>

\* parser.Parse() in run: the statements, or log.Fatal on a syntax error.
Parse ==
    /\ pc = "Parse"
    /\ status = "running"
    /\ \/ pc' = "Interpret" /\ UNCHANGED status
       \/ status' = "fatal" /\ UNCHANGED pc
    /\ UNCHANGED <<parserVars, runs, interpreterVars, scanner>>

\* interpreter.Interpret(statements) in run, as far as run sees it: it
\* returns, or the process has ended in it.
run_Interpret ==
    /\ pc = "Interpret"
    /\ status = "running"
    /\ \/ pc' = "done" /\ UNCHANGED status
       \/ status' \in {"fatal", "panic"} /\ UNCHANGED pc
    /\ UNCHANGED <<parserVars, runs, interpreterVars, scanner>>

Alphabet == {"/", "*", "a", "\"", "@", "1", "\n", "=", "."}
CommentAlphabet == {"/", "*", "a", "\n"}

Texts(alphabet, n) == [1..n -> alphabet]

Sources ==
    UNION {Texts(Alphabet, n) : n \in 0..MaxLen}
    \cup UNION {Texts(CommentAlphabet, n) : n \in 0..MaxComment}

\* run(source) up to the call of ScanTokens.
ScanInit ==
    /\ \E source \in Sources : scanner = NewScanner(source)
    /\ pc = "ScanTokens"
    /\ status = "running"
    /\ prog = [name |-> "source", a |-> 0, b |-> 0, nest |-> <<>>]
    /\ heap = <<>>
    /\ globals = 0
    /\ environment = 0
    /\ control = Ret(Nil)
    /\ kont = <<>>
    /\ output = <<>>
    /\ nextFn = 1
    /\ parser = [tokens |-> <<>>, current |-> 0]
    /\ parsed = <<>>
    /\ reported = <<>>
    /\ runs = 1

ScanNext ==
    \/ scanToken
    \/ ScanTokens
    \/ Parse
    \/ run_Interpret

ScanSpec == ScanInit /\ [][ScanNext]_vars

---------------------------------------------------------------------------
(* The Parser.  A method that returns a node and moves current is an       *)
(* operator from the parser p = [tokens, current] to [ok, p, v]: the node  *)
(* v and the parser behind it, or, when the method ends in                 *)
(* log.Fatal(ReportExit(p.peek().line, "", message)), ok = FALSE and v the *)
(* line and the message written (without its colour codes).                *)

NewParser(tokens) == [tokens |-> tokens, current |-> 0]

\* p.tokens[p.current]
Parser_peek(p) == p.tokens[p.current + 1]

\* p.tokens[p.current-1]
Parser_previous(p) == p.tokens[p.current]

Parser_isAtEnd(p) == Parser_peek(p).tokenType = "EOF"

Parser_check(p, ttype) ==
    IF Parser_isAtEnd(p) THEN FALSE ELSE Parser_peek(p).tokenType = ttype

\* The parser after advance().
Parser_advance(p) == IF ~Parser_isAtEnd(p) THEN [p EXCEPT !.current = @ + 1] ELSE p

\* What match(types...) returns; when true the parser has advanced.
Parser_match(p, types) == \E ttype \in types : Parser_check(p, ttype)

Parsed(p, v) == [ok |-> TRUE, p |-> p, v |-> v]
ParseFatal(p, message) ==
    [ok |-> FALSE, p |-> p, v |-> [line |-> Parser_peek(p).line, message |-> message]]

Parser_consume(p, tokenType, message) ==
    IF Parser_check(p, tokenType)
    THEN Parsed(Parser_advance(p), Parser_peek(p))
    ELSE ParseFatal(p, message)

\* The levels of or, and, equality, comparison, term and factor: the token
\* types each matches.
operatorsOf(level) ==
    CASE level = "or" -> {"OR"}
      [] level = "and" -> {"AND"}
      [] level = "equality" -> {"BANG_EQUAL", "EQUAL_EQUAL"}
      [] level = "comparison" -> {"GREATER", "GREATER_EQUAL", "LESS", "LESS_EQUAL"}
      [] level = "term" -> {"MINUS", "PLUS"}
      [] level = "factor" -> {"SLASH", "STAR"}

\* The level whose method a level calls for its operands.
higher(level) ==
    CASE level = "or" -> "and"
      [] level = "and" -> "equality"
      [] level = "equality" -> "comparison"
      [] level = "comparison" -> "term"
      [] level = "term" -> "factor"
      [] level = "factor" -> "unary"

\* How a method goes on after a call inside it: with the parser and the value
\* the call returned, or not at all when the call ended the process by log.Fatal.
Then(result, rest(_, _)) == IF result.ok THEN rest(result.p, result.v) ELSE result

\* The call of a method of the Parser from inside a method, by its name:
\* declaration, statement, expression, assignment, unary, and or ... factor.
RECURSIVE Parser_call(_, _)

\* and() in or(), equality() in and(), ..., unary() in factor()
operand(level, p) == Parser_call(higher(level), p)

RECURSIVE leftAssociative(_, _, _)

\* for p.match(operators...) { operator := p.previous(); right := operand();
\* expr = &LogicalExpr{expr, operator, right} or &BinaryExpr{..} }; return expr
leftAssociative(level, p, expr) ==
    IF Parser_match(p, operatorsOf(level))
    THEN Then(operand(level, Parser_advance(p)),
              LAMBDA p1, right :
                  leftAssociative(level, p1,
                      IF level \in {"or", "and"}
                      THEN LogicalExpr(expr, Parser_peek(p), right)
                      ELSE BinaryExpr(expr, Parser_peek(p), right)))
    ELSE Parsed(p, expr)

\* The methods or, and, equality, comparison, term and factor.
binary(level, p) ==
    Then(operand(level, p), LAMBDA p1, expr : leftAssociative(level, p1, expr))

primary(p) ==
    IF Parser_match(p, {"FALSE"}) THEN Parsed(Parser_advance(p), LiteralExpr(Bool(FALSE)))
    ELSE IF Parser_match(p, {"TRUE"})
    THEN Parsed(Parser_advance(p), LiteralExpr(Bool(TRUE)))
    ELSE IF Parser_match(p, {"NIL"}) THEN Parsed(Parser_advance(p), LiteralExpr(Nil))
    ELSE IF Parser_match(p, {"NUMBER", "STRING"})
    THEN Parsed(Parser_advance(p), LiteralExpr(Parser_peek(p).literal))
    ELSE IF Parser_match(p, {"IDENTIFIER"})
    THEN Parsed(Parser_advance(p), VariableExpr(Parser_peek(p)))
    ELSE IF Parser_match(p, {"LEFT_PAREN"})
    THEN Then(Parser_call("expression", Parser_advance(p)),
              LAMBDA p1, expr :
         Then(Parser_consume(p1, "RIGHT_PAREN", "Expect ')' after expression."),
              LAMBDA p2, close : Parsed(p2, GroupingExpr(expr))))
    ELSE ParseFatal(p, "Expected expression.")

unary(p) ==
    IF Parser_match(p, {"BANG", "MINUS"})
    THEN Then(Parser_call("unary", Parser_advance(p)),
              LAMBDA p1, right : Parsed(p1, UnaryExpr(Parser_peek(p), right)))
    ELSE primary(p)

\* Mutant of assignment: any expression is taken as a target, by its first token.
assignment_anyTarget(p) ==
    Then(binary("or", p),
         LAMBDA p1, expr :
             IF Parser_match(p1, {"EQUAL"})
             THEN Then(Parser_call("assignment", Parser_advance(p1)),
                       LAMBDA p2, value : Parsed(p2, AssignExpr(Parser_peek(p), value)))
             ELSE Parsed(p1, expr))

assignment(p) ==
    Then(binary("or", p),
         LAMBDA p1, expr :
             IF Parser_match(p1, {"EQUAL"})
             THEN Then(Parser_call("assignment", Parser_advance(p1)),
                       LAMBDA p2, value :
                           IF expr.e = "Variable"
                           THEN Parsed(p2, AssignExpr(expr.name, value))
                           ELSE ParseFatal(p2, "Invalid assignment target."))
             ELSE Parsed(p1, expr))

expression(p) == assignment(p)

expressionStatement(p) ==
    Then(expression(p),
         LAMBDA p1, expr :
    Then(Parser_consume(p1, "SEMICOLON", "Expect ';' after expression."),
         LAMBDA p2, semi : Parsed(p2, ExpressionStmt(expr))))

printStatement(p) ==
    Then(expression(p),
         LAMBDA p1, value :
    Then(Parser_consume(p1, "SEMICOLON", "Expect ';' after value."),
         LAMBDA p2, semi : Parsed(p2, PrintStmt(value))))

varDeclaration(p) ==
    Then(Parser_consume(p, "IDENTIFIER", "Expect variable name."),
         LAMBDA p1, name :
    Then(IF Parser_match(p1, {"EQUAL"})
         THEN expression(Parser_advance(p1))
         ELSE Parsed(p1, NoExpr),
         LAMBDA p2, initializer :
    Then(Parser_consume(p2, "SEMICOLON", "Expected ';' after variable declaration."),
         LAMBDA p3, semi : Parsed(p3, VarStmt(name, initializer)))))

whileStatement(p) ==
    Then(Parser_consume(p, "LEFT_PAREN", "Expect '(' after 'while'."),
         LAMBDA p1, open :
    Then(expression(p1),
         LAMBDA p2, condition :
    Then(Parser_consume(p2, "RIGHT_PAREN", "Expect ')' after condition."),
         LAMBDA p3, close :
    Then(Parser_call("statement", p3),
         LAMBDA p4, body : Parsed(p4, WhileStmt(condition, body))))))

ifStatement(p) ==
    Then(Parser_consume(p, "LEFT_PAREN", "Expect '(' after 'if'."),
         LAMBDA p1, open :
    Then(expression(p1),
         LAMBDA p2, condition :
    Then(Parser_consume(p2, "RIGHT_PAREN", "Expect ')' after if condition."),
         LAMBDA p3, close :
    Then(Parser_call("statement", p3),
         LAMBDA p4, thenBranch :
    Then(IF Parser_match(p4, {"ELSE"})
         THEN Parser_call("statement", Parser_advance(p4))
         ELSE Parsed(p4, NoStmt),
         LAMBDA p5, elseBranch :
             Parsed(p5, IfStmt(condition, thenBranch, elseBranch)))))))

\* The clauses and the body of a for statement, as forStatement parses them
\* before it builds the loop: each clause left out is nil.
forClauses(p) ==
    Then(Parser_consume(p, "LEFT_PAREN", "Expect '(' after 'for'."),
         LAMBDA p1, open :
    Then(IF Parser_match(p1, {"SEMICOLON"}) THEN Parsed(Parser_advance(p1), NoStmt)
         ELSE IF Parser_match(p1, {"VAR"}) THEN varDeclaration(Parser_advance(p1))
         ELSE expressionStatement(p1),
         LAMBDA p2, initializer :
    Then(IF ~Parser_check(p2, "SEMICOLON") THEN expression(p2) ELSE Parsed(p2, NoExpr),
         LAMBDA p3, condition :
    Then(Parser_consume(p3, "SEMICOLON", "Expected ';' after loop condition."),
         LAMBDA p4, semi :
    Then(IF ~Parser_check(p4, "RIGHT_PAREN") THEN expression(p4) ELSE Parsed(p4, NoExpr),
         LAMBDA p5, increment :
    Then(Parser_consume(p5, "RIGHT_PAREN", "Expected ')' after for clauses."),
         LAMBDA p6, close :
    Then(Parser_call("statement", p6),
         LAMBDA p7, body :
             Parsed(p7, [initializer |-> initializer, condition |-> condition,
                         increment |-> increment, body |-> body]))))))))

\* Mutant of forStatement: the increment is put in front of the body.
forStatement_incrementFirst(p) ==
    Then(forClauses(p),
         LAMBDA p1, for :
             LET body1 == IF for.increment # NoExpr
                          THEN BlockStmt(<<ExpressionStmt(for.increment), for.body>>)
                          ELSE for.body
                 condition == IF for.condition = NoExpr THEN LiteralExpr(Bool(TRUE))
                              ELSE for.condition
                 body2 == WhileStmt(condition, body1)
             IN  Parsed(p1, IF for.initializer # NoStmt
                            THEN BlockStmt(<<for.initializer, body2>>)
                            ELSE body2))

forStatement(p) ==
    Then(forClauses(p),
         LAMBDA p1, for :
             LET body1 == IF for.increment # NoExpr
                          THEN BlockStmt(<<for.body, ExpressionStmt(for.increment)>>)
                          ELSE for.body
                 condition == IF for.condition = NoExpr THEN LiteralExpr(Bool(TRUE))
                              ELSE for.condition
                 body2 == WhileStmt(condition, body1)
             IN  Parsed(p1, IF for.initializer # NoStmt
                            THEN BlockStmt(<<for.initializer, body2>>)
                            ELSE body2))

\* for !p.check(RIGHT_BRACE) && !p.isAtEnd() { statements = append(.., p.declaration()) }
RECURSIVE blockLoop(_, _)
blockLoop(p, stmts) ==
    IF ~Parser_check(p, "RIGHT_BRACE") /\ ~Parser_isAtEnd(p)
    THEN Then(Parser_call("declaration", p),
              LAMBDA p1, stmt : blockLoop(p1, Append(stmts, stmt)))
    ELSE Parsed(p, stmts)

block(p) ==
    Then(blockLoop(p, <<>>),
         LAMBDA p1, stmts :
    Then(Parser_consume(p1, "RIGHT_BRACE", "Expected '}' after block."),
         LAMBDA p2, close : Parsed(p2, stmts)))

statement(p) ==
    IF Parser_match(p, {"FOR"}) THEN forStatement(Parser_advance(p))
    ELSE IF Parser_match(p, {"IF"}) THEN ifStatement(Parser_advance(p))
    ELSE IF Parser_match(p, {"PRINT"}) THEN printStatement(Parser_advance(p))
    ELSE IF Parser_match(p, {"WHILE"}) THEN whileStatement(Parser_advance(p))
    ELSE IF Parser_match(p, {"LEFT_BRACE"})
    THEN Then(block(Parser_advance(p)), LAMBDA p1, stmts : Parsed(p1, BlockStmt(stmts)))
    ELSE expressionStatement(p)

declaration(p) ==
    IF Parser_match(p, {"VAR"}) THEN varDeclaration(Parser_advance(p)) ELSE statement(p)

Parser_call(method, p) ==
    CASE method = "declaration" -> declaration(p)
      [] method = "statement" -> statement(p)
      [] method = "expression" -> expression(p)
      [] method = "assignment" -> assignment(p)
      [] method = "unary" -> unary(p)
      [] OTHER -> binary(method, p)

\* for !p.isAtEnd() { if p.previous().tokenType == SEMICOLON { return }
\* switch p.peek().tokenType { case CLASS: ... case RETURN: return }; p.advance() }
\* A case of a Go switch does not fall through: the cases CLASS, FUN, VAR, IF,
\* WHILE and PRINT are empty and only the case RETURN holds the return.
RECURSIVE synchronizeLoop(_)
synchronizeLoop(p) ==
    IF ~Parser_isAtEnd(p)
    THEN IF Parser_previous(p).tokenType = "SEMICOLON" THEN p
         ELSE LET ttype == Parser_peek(p).tokenType
                  returns == CASE ttype = "CLASS" -> FALSE
                               [] ttype = "FUN" -> FALSE
                               [] ttype = "VAR" -> FALSE
                               [] ttype = "IF" -> FALSE
                               [] ttype = "WHILE" -> FALSE
                               [] ttype = "PRINT" -> FALSE
                               [] ttype = "RETURN" -> TRUE
                               [] OTHER -> FALSE
              IN  IF returns THEN p ELSE synchronizeLoop(Parser_advance(p))
    ELSE p

\* The parser after synchronize(), or the run-time panic of its first
\* p.advance(): at the end of the tokens advance does not move and returns
\* p.previous(), which is p.tokens[-1] when current is 0.
synchronize(p) ==
    IF Parser_isAtEnd(p) /\ p.current = 0
    THEN [outcome |-> "panic", p |-> p]
    ELSE [outcome |-> "ok", p |-> synchronizeLoop(Parser_advance(p))]

\* One turn of the loop of Parse: statements = append(statements, p.declaration()),
\* or the log.Fatal of the method that met the syntax error.
Parser_Parse ==
    /\ pc = "Parse"
    /\ status = "running"
    /\ ~Parser_isAtEnd(parser)
    /\ LET stmt == Parser_call("declaration", parser)
       IN  /\ parser' = stmt.p
           /\ IF stmt.ok
              THEN /\ parsed' = Append(parsed, stmt.v)
                   /\ UNCHANGED <<reported, status>>
              ELSE /\ reported' = Append(reported, stmt.v)
                   /\ status' = "fatal"
                   /\ UNCHANGED parsed
    /\ UNCHANGED <<interpreterVars, scanner, pc, runs>>

\* The end of Parse: the statements are returned to run.
Parser_Parse_return ==
    /\ pc = "Parse"
    /\ status = "running"
    /\ Parser_isAtEnd(parser)
    /\ pc' = "Interpret"
    /\ UNCHANGED <<interpreterVars, parserVars, scanner, status, runs>>

\* A call of synchronize().
Parser_synchronize ==
    /\ pc = "synchronize"
    /\ status = "running"
    /\ LET r == synchronize(parser)
       IN  /\ parser' = r.p
           /\ IF r.outcome = "ok"
              THEN pc' = "synchronized" /\ UNCHANGED status
              ELSE status' = r.outcome /\ UNCHANGED pc
    /\ UNCHANGED <<interpreterVars, parsed, reported, scanner, runs>>

\* The token lists handed to the Parser: every list of at most MaxTokens
\* tokens of TokenTypes, and the statements of Statements, each closed by EOF.
MaxTokens == 4

TokenTypes == {"IDENTIFIER", "NUMBER", "EQUAL", "SEMICOLON", "PRINT", "VAR", "RETURN", "MINUS"}

\* The token the Scanner makes of the lexeme shown, on line 1.
Tok(tokenType) ==
    CASE tokenType = "IDENTIFIER" -> NewToken(tokenType, <<"a">>, Nil, 1)
      [] tokenType = "NUMBER" -> NewToken(tokenType, <<"1">>, Num(1), 1)
      [] tokenType = "EQUAL" -> NewToken(tokenType, <<"=">>, Nil, 1)
      [] tokenType = "SEMICOLON" -> NewToken(tokenType, <<";">>, Nil, 1)
      [] tokenType = "MINUS" -> NewToken(tokenType, <<"-">>, Nil, 1)
      [] tokenType = "PLUS" -> NewToken(tokenType, <<"+">>, Nil, 1)
      [] tokenType = "LESS" -> NewToken(tokenType, <<"<">>, Nil, 1)
      [] tokenType = "LEFT_PAREN" -> NewToken(tokenType, <<"(">>, Nil, 1)
      [] tokenType = "RIGHT_PAREN" -> NewToken(tokenType, <<")">>, Nil, 1)
      [] tokenType = "LEFT_BRACE" -> NewToken(tokenType, <<"{">>, Nil, 1)
      [] tokenType = "RIGHT_BRACE" -> NewToken(tokenType, <<"}">>, Nil, 1)
      [] tokenType = "OR" -> NewToken(tokenType, <<"o", "r">>, Nil, 1)
      [] tokenType = "IF" -> NewToken(tokenType, <<"i", "f">>, Nil, 1)
      [] tokenType = "ELSE" -> NewToken(tokenType, <<"e", "l", "s", "e">>, Nil, 1)
      [] tokenType = "FOR" -> NewToken(tokenType, <<"f", "o", "r">>, Nil, 1)
      [] tokenType = "VAR" -> NewToken(tokenType, <<"v", "a", "r">>, Nil, 1)
      [] tokenType = "NIL" -> NewToken(tokenType, <<"n", "i", "l">>, Nil, 1)
      [] tokenType = "TRUE" -> NewToken(tokenType, <<"t", "r", "u", "e">>, Nil, 1)
      [] tokenType = "WHILE" -> NewToken(tokenType, <<"w", "h", "i", "l", "e">>, Nil, 1)
      [] tokenType = "PRINT" -> NewToken(tokenType, <<"p", "r", "i", "n", "t">>, Nil, 1)
      [] tokenType = "RETURN" -> NewToken(tokenType, <<"r", "e", "t", "u", "r", "n">>, Nil, 1)
      [] tokenType = "EOF" -> NewToken(tokenType, <<>>, Nil, 1)

Toks(types) == [i \in 1..Len(types) |-> Tok(types[i])]

\* for ( <initializer> <condition> ; <increment> ) <body>, as token types:
\* each clause is left out ("none") or is the one shown.
ForInitializers ==
    [none |-> <<"SEMICOLON">>,
     var |-> <<"VAR", "IDENTIFIER", "EQUAL", "NUMBER", "SEMICOLON">>,
     expr |-> <<"IDENTIFIER", "EQUAL", "NUMBER", "SEMICOLON">>]
ForConditions == [none |-> <<>>, expr |-> <<"IDENTIFIER", "LESS", "NUMBER">>]
ForIncrements ==
    [none |-> <<>>, expr |-> <<"IDENTIFIER", "EQUAL", "IDENTIFIER", "PLUS", "NUMBER">>]
ForBodies ==
    [print |-> <<"PRINT", "IDENTIFIER", "SEMICOLON">>,
     block |-> <<"LEFT_BRACE", "PRINT", "IDENTIFIER", "SEMICOLON", "RIGHT_BRACE">>]

ForStatement(initializer, condition, increment, body) ==
    <<"FOR", "LEFT_PAREN">> \o ForInitializers[initializer] \o ForConditions[condition]
    \o <<"SEMICOLON">> \o ForIncrements[increment] \o <<"RIGHT_PAREN">> \o ForBodies[body]

ForStatements ==
    {ForStatement(i, c, n, b) : i \in DOMAIN ForInitializers, c \in DOMAIN ForConditions,
                                n \in DOMAIN ForIncrements, b \in DOMAIN ForBodies}

\* <target> = 1 ;  for each form of expression on the left of the =
Targets ==
    [variable |-> <<"IDENTIFIER">>,
     literal |-> <<"NUMBER">>,
     grouping |-> <<"LEFT_PAREN", "IDENTIFIER", "RIGHT_PAREN">>,
     unary |-> <<"MINUS", "IDENTIFIER">>,
     binary |-> <<"IDENTIFIER", "PLUS", "NUMBER">>,
     logical |-> <<"IDENTIFIER", "OR", "IDENTIFIER">>,
     assign |-> <<"IDENTIFIER", "EQUAL", "NUMBER">>]

Assignment(target) == Targets[target] \o <<"EQUAL", "NUMBER", "SEMICOLON">>

Assignments == {Assignment(t) : t \in DOMAIN Targets}

\* Statements with one syntax error each, up to their ; and what the Parser
\* says of them.
Malformed ==
    [expression |-> <<"PRINT", "SEMICOLON">>,
     name |-> <<"VAR", "EQUAL", "NUMBER", "SEMICOLON">>,
     target |-> <<"NUMBER", "EQUAL", "NUMBER", "SEMICOLON">>,
     paren |-> <<"PRINT", "LEFT_PAREN", "IDENTIFIER", "SEMICOLON">>]

TwoMalformed == {Malformed[m] \o Malformed[n] : m, n \in DOMAIN Malformed}

\* if ( a ) print a ; else { a = 1 ; }    while ( a ) a = 1 ;
Branches ==
    {<<"IF", "LEFT_PAREN", "IDENTIFIER", "RIGHT_PAREN", "PRINT", "IDENTIFIER", "SEMICOLON",
       "ELSE", "LEFT_BRACE", "IDENTIFIER", "EQUAL", "NUMBER", "SEMICOLON", "RIGHT_BRACE">>,
     <<"WHILE", "LEFT_PAREN", "IDENTIFIER", "RIGHT_PAREN", "IDENTIFIER", "EQUAL", "NUMBER",
       "SEMICOLON">>}

TokenLists ==
    UNION {[1..n -> TokenTypes] : n \in 0..MaxTokens}
    \cup ForStatements \cup Assignments \cup TwoMalformed \cup Branches

\* run up to the call of Parse, with the tokens of ScanTokens.
ParseInit ==
    /\ \E types \in TokenLists : parser = NewParser(Toks(Append(types, "EOF")))
    /\ parsed = <<>>
    /\ reported = <<>>
    /\ pc = "Parse"
    /\ status = "running"
    /\ scanner = NewScanner(<<>>)
    /\ prog = [name |-> "source", a |-> 0, b |-> 0, nest |-> <<>>]
    /\ heap = <<>>
    /\ globals = 0
    /\ environment = 0
    /\ control = Ret(Nil)
    /\ kont = <<>>
    /\ output = <<>>
    /\ nextFn = 1
    /\ runs = 1

ParseNext ==
    \/ Parser_Parse
    \/ Parser_Parse_return
    \/ run_Interpret

ParseSpec == ParseInit /\ [][ParseNext]_vars

\* A Parser in the middle of its tokens, about to call synchronize.
SyncInit ==
    /\ \E types \in TokenLists : \E current \in 0..Len(types) :
            parser = [tokens |-> Toks(Append(types, "EOF")), current |-> current]
    /\ parsed = <<>>
    /\ reported = <<>>
    /\ pc = "synchronize"
    /\ status = "running"
    /\ scanner = NewScanner(<<>>)
    /\ prog = [name |-> "source", a |-> 0, b |-> 0, nest |-> <<>>]
    /\ heap = <<>>
    /\ globals = 0
    /\ environment = 0
    /\ control = Ret(Nil)
    /\ kont = <<>>
    /\ output = <<>>
    /\ nextFn = 1
    /\ runs = 1

SyncNext == Parser_synchronize

SyncSpec == SyncInit /\ [][SyncNext]_vars

---------------------------------------------------------------------------
(* The specification.                                                      *)

\* NewInterpreter, then Interpret(statements) about to run its first statement.
Init ==
    /\ prog \in Inputs
    /\ heap = <<define(<<NewEnvironment>>, 1, "clock", ClockValue)[1]>>
    /\ globals = 1
    /\ environment = 1
    /\ kont = <<[k |-> "Interpret", statements |-> Program(prog), idx |-> 0]>>
    /\ control = Ret(Nil)
    /\ output = <<>>
    /\ status = "running"
    /\ nextFn = 1
    /\ scanner = NewScanner(<<>>)
    /\ pc = "Interpret"
    /\ parser = [tokens |-> <<>>, current |-> 0]
    /\ parsed = <<>>
    /\ reported = <<>>
    /\ runs = 1

Next ==
    \/ Interpret
    \/ executeBlock
    \/ VisitBlockStmt
    \/ VisitExpressionStmt
    \/ VisitPrintStmt
    \/ VisitPrintStmt_Println
    \/ VisitVarStmt
    \/ VisitVarStmt_define
    \/ VisitFunctionStmt
    \/ VisitIfStmt
    \/ VisitIfStmt_branch
    \/ VisitWhileStmt
    \/ VisitWhileStmt_condition
    \/ VisitWhileStmt_body
    \/ VisitReturnStmt
    \/ VisitReturnStmt_value
    \/ VisitBreakStmt
    \/ executeBlock_defer
    \/ VisitWhileStmt_defer
    \/ PanicUnwind
    \/ PanicExit
    \/ VisitLiteralExpr
    \/ VisitGroupingExpr
    \/ VisitVariableExpr
    \/ VisitAssignExpr
    \/ VisitAssignExpr_assign
    \/ VisitUnaryExpr
    \/ VisitUnaryExpr_apply
    \/ VisitBinaryExpr
    \/ VisitBinaryExpr_right
    \/ VisitBinaryExpr_apply
    \/ VisitLogicalExpr
    \/ VisitLogicalExpr_left
    \/ VisitCallExpr
    \/ VisitCallExpr_argument
    \/ VisitCallExpr_check
    \/ LoxFunction_call
    \/ LoxFunction_call_result
    \/ Clock_call

Spec == Init /\ [][Next]_vars

---------------------------------------------------------------------------
(* runPrompt: one call of run for each line read.  The Scanner and the     *)
(* Parser of a call are new as well and hand nothing on; a line is given   *)
(* as the statements Parse returns for it.                                 *)

\* runPrompt reads at most MaxRuns lines.
MaxRuns == 2

\* The first line is any of the input programs with its smallest values;
\* the lines behind it define x, get and set again or print one name.
FirstLines == {p \in Inputs : p.a = 0 /\ p.b = 0 /\ Len(p.nest) <= 1}
LaterLines ==
    Input("Probe", 0..(Len(ProbeNames) - 1), {0}, {<<>>})
    \cup Input("Shadow", {0}, {0}, {<<>>})
    \cup Input("ClosureShared", {0}, {0}, {<<>>})

\* Mutant of runPrompt: the lines are run by one Interpreter.
runPrompt_sameInterpreter ==
    /\ status = "done"
    /\ runs < MaxRuns
    /\ \E line \in LaterLines :
            /\ prog' = line
            /\ kont' = <<[k |-> "Interpret", statements |-> Program(line), idx |-> 0]>>
    /\ environment' = globals
    /\ control' = Ret(Nil)
    /\ status' = "running"
    /\ runs' = runs + 1
    /\ UNCHANGED <<parserVars, scanner, pc, heap, globals, output, nextFn>>

\* The next turn of the loop of runPrompt, once the run before it has
\* returned: lox.run(line), which makes a NewInterpreter and has it
\* Interpret the statements of the line.
runPrompt ==
    /\ status = "done"
    /\ runs < MaxRuns
    /\ \E line \in LaterLines :
            /\ prog' = line
            /\ kont' = <<[k |-> "Interpret", statements |-> Program(line), idx |-> 0]>>
    /\ heap' = Append(heap, define(<<NewEnvironment>>, 1, "clock", ClockValue)[1])
    /\ globals' = Len(heap) + 1
    /\ environment' = Len(heap) + 1
    /\ control' = Ret(Nil)
    /\ status' = "running"
    /\ runs' = runs + 1
    /\ UNCHANGED <<parserVars, scanner, pc, output, nextFn>>

\* runPrompt with its first line read and handed to run.
ReplInit ==
    /\ prog \in FirstLines
    /\ heap = <<define(<<NewEnvironment>>, 1, "clock", ClockValue)[1]>>
    /\ globals = 1
    /\ environment = 1
    /\ kont = <<[k |-> "Interpret", statements |-> Program(prog), idx |-> 0]>>
    /\ control = Ret(Nil)
    /\ output = <<>>
    /\ status = "running"
    /\ nextFn = 1
    /\ scanner = NewScanner(<<>>)
    /\ pc = "Interpret"
    /\ parser = [tokens |-> <<>>, current |-> 0]
    /\ parsed = <<>>
    /\ reported = <<>>
    /\ runs = 1

ReplNext ==
    \/ Next
    \/ runPrompt

ReplSpec == ReplInit /\ [][ReplNext]_vars

---------------------------------------------------------------------------
(* Properties.                                                             *)

Frames == 1..Len(kont)

\* The result handed to the frame on top is a *ReturnError and a call of a
\* user-defined function is active: a return has executed in a function body.
ReturnInFlight ==
    /\ status = "running"
    /\ control.c = "ret"
    /\ control.val.t = "ReturnError"
    /\ \E j \in Frames : kont[j].k = "LoxFunction_call"

\* C1: once a return statement has executed inside a function body, nothing
\* else of that body runs: every frame of the body (block, if, while loop)
\* hands the *ReturnError on unchanged and ends, and the call yields the
\* value of that return.
C1_ReturnEndsTheCall ==
    [][ReturnInFlight =>
         /\ kont' = Pop
         /\ IF Top.k = "LoxFunction_call"
            THEN control' = Ret(control.val.value)
            ELSE control' = control]_vars

\* A break panic is unwinding.
BreakPanic == Panicking /\ control.val = "BreakError"

\* The deferred recover of a while loop is reached by a break panic.
BreakCaught ==
    /\ BreakPanic
    /\ control.at > 0
    /\ kont[control.at].k = "VisitWhileStmt"

\* C2: a break never crosses a function-call boundary: when a while loop is
\* ended by a break, none of the activations the break has left is a call of
\* a user-defined function.
C2_BreakNeverCrossesCall ==
    [][(BreakCaught /\ control'.c = "ret") =>
         \A j \in (control.at + 1)..Len(kont) : kont[j].k # "LoxFunction_call"]_vars

\* The innermost while loop that is active.
InnermostLoop ==
    CHOOSE j \in Frames :
        /\ kont[j].k = "VisitWhileStmt"
        /\ \A i \in (j + 1)..Len(kont) : kont[i].k # "VisitWhileStmt"

\* The statement being executed lies in the body of a while loop of the same
\* function activation (below blocks and ifs only).
InLoopBody ==
    /\ \E j \in Frames : kont[j].k = "VisitWhileStmt"
    /\ \A i \in (InnermostLoop + 1)..Len(kont) : kont[i].k # "LoxFunction_call"

\* C3: a break in the body of a while loop ends exactly the innermost
\* enclosing loop: from the break on nothing is executed, evaluated, printed
\* or bound while the blocks of the body are left one by one; the loop's
\* frame is the first to stop the break; the loop then returns to the frame
\* below it, which goes on with the statement after the loop.
C3_BreakEndsInnermostLoop ==
    [][/\ (Executing("Break") /\ InLoopBody) =>
            /\ control' = Panic("BreakError", Len(kont))
            /\ kont' = kont
            /\ heap' = heap
            /\ output' = output
       /\ (BreakPanic /\ InLoopBody) =>
            /\ control.at >= InnermostLoop
            /\ heap' = heap
            /\ output' = output
            /\ status' = "running"
            /\ IF control.at > InnermostLoop
               THEN control' = Panic("BreakError", control.at - 1) /\ kont' = kont
               ELSE control' = Ret(Nil) /\ kont' = SubSeq(kont, 1, InnermostLoop - 1)
      ]_vars

\* The nested break of BreakNested has ended the inner loop in each of the
\* LoopCount iterations of the outer loop, which went on: "rest" was never
\* printed, the statement after the inner loop printed n each time.
C3_Witness ==
    /\ prog.name = "BreakNested"
    /\ prog.nest = <<"block", "if">>
    /\ status = "done"
    /\ Len(output) = LoopCount + 1
    /\ \A i \in 1..LoopCount : output[i] = SprintfV(i)
    /\ output[LoopCount + 1] = "end"

\* C4: a closure shares the environment in which its function was declared.
\* ClosureShared: get() reads the b assigned to x after get was declared, and
\* the a + b + 1 that set() assigned is read outside.  Counter: the closure
\* returned by make() counts on from call to call after make() has returned
\* (a + 1, a + 2, and a + 3 later), and a second make() starts again at a + 1.
C4_ClosureSharesEnvironment ==
    /\ prog.name \in {"ClosureShared", "Counter"} => status \in {"running", "done"}
    /\ (prog.name = "ClosureShared" /\ status = "done") =>
            output = <<SprintfV(prog.b), SprintfV(prog.a + prog.b + 1)>>
    /\ (prog.name = "Counter" /\ status = "done") =>
            output = <<SprintfV(prog.a + 1), SprintfV(prog.a + 2),
                       SprintfV(prog.a + 1), SprintfV(prog.a + 3)>>

\* The counter closure was called after make() returned and gave two
\* consecutive values.
C4_Witness ==
    /\ prog.name = "Counter"
    /\ status = "done"
    /\ Len(output) = 4
    /\ output[1] = SprintfV(prog.a + 1)
    /\ output[2] = SprintfV(prog.a + 2)
    /\ output[1] # output[2]

\* A var statement is about to call define.
VarDefines ==
    \/ Executing("Var") /\ control.stmt.initializer = NoExpr
    \/ Returning("VisitVarStmt")
VarName == IF control.c = "exec" THEN control.stmt.name ELSE Top.stmt.name
VarValue == IF control.c = "exec" THEN Nil ELSE control.val

\* C5: define binds the name in the current scope and changes nothing else:
\* no other Environment, no other name of the current one.  So in Shadow the
\* block prints its own x (b, then the redefined b + 1, once per execution
\* of the block) and the statement after the block prints the outer x = a.
C5_DefineCurrentScopeOnly ==
    /\ [][VarDefines =>
            /\ Len(heap') = Len(heap)
            /\ environment' = environment
            /\ \A e \in 1..Len(heap) : e # environment => heap'[e] = heap[e]
            /\ heap'[environment].enclosing = heap[environment].enclosing
            /\ DOMAIN heap'[environment].values =
                    DOMAIN heap[environment].values \cup {VarName}
            /\ heap'[environment].values[VarName] = VarValue
            /\ \A x \in DOMAIN heap[environment].values \ {VarName} :
                    heap'[environment].values[x] = heap[environment].values[x]
         ]_vars
    /\ [](prog.name = "Shadow" =>
            /\ status \in {"running", "done"}
            /\ status = "done" =>
                /\ Len(output) >= 3
                /\ output[Len(output)] = SprintfV(prog.a)
                /\ \A i \in 1..(Len(output) - 1) :
                        output[i] = SprintfV(IF i % 2 = 1 THEN prog.b ELSE prog.b + 1))

\* `var x = a; { var x = b; print x; var x = b + 1; print x; } print x;`
\* has printed b, b + 1, a, with a different from both.
C5_Witness ==
    /\ prog.name = "Shadow"
    /\ prog.nest = <<>>
    /\ prog.a > prog.b + 1
    /\ status = "done"
    /\ output = <<SprintfV(prog.b), SprintfV(prog.b + 1), SprintfV(prog.a)>>

\* The environment of the innermost executeBlock activation among the first
\* n frames, the globals when there is none.
RECURSIVE ScopeOf(_, _)
ScopeOf(k, n) ==
    IF n = 0 THEN globals
    ELSE IF k[n].k = "executeBlock" THEN k[n].environment
    ELSE ScopeOf(k, n - 1)

\* C6: scopes are nested with control flow: i.environment is the environment
\* of the innermost block or call still active, the globals outside every
\* block; while a panic unwinds it is that of the innermost block not yet
\* left.  So whenever a block or a call has ended, normally, by return or
\* by a break, the environment is again the one of the frames below it.
C6_ScopesNested ==
    /\ control.c # "panic" => environment = ScopeOf(kont, Len(kont))
    /\ control.c = "panic" => environment = ScopeOf(kont, control.at)
    /\ \A j \in Frames :
            kont[j].k = "executeBlock" => kont[j].previous = ScopeOf(kont, j - 1)

\* A break has left at least two blocks and reached the loop that recovers
\* it, and the environment is the one the loop statement started in.
C6_Witness ==
    /\ BreakCaught
    /\ Cardinality({j \in (control.at + 1)..Len(kont) : kont[j].k = "executeBlock"}) >= 2
    /\ environment = ScopeOf(kont, control.at)
    /\ environment # kont[Len(kont)].environment

\* Some scope of the chain that starts at e binds name.
RECURSIVE Binds(_, _, _)
Binds(h, e, name) ==
    /\ e # 0
    /\ \/ name \in DOMAIN h[e].values
       \/ Binds(h, h[e].enclosing, name)

\* C7: reading or assigning a name that no scope of the current chain binds
\* is a runtime error, which ends the run with every Environment as it was:
\* no binding is created or changed.
C7_UndefinedIsAnError ==
    [][/\ (Evaluating("Variable") /\ ~Binds(heap, environment, control.expr.name)) =>
            /\ status' = "fatal"
            /\ heap' = heap
            /\ output' = output
       /\ (Returning("VisitAssignExpr") /\ ~Binds(heap, environment, Top.expr.name)) =>
            /\ status' = "fatal"
            /\ heap' = heap
            /\ output' = output
      ]_vars

\* The assignment y = 1 of UndefinedAssign has failed inside a block and no
\* Environment binds y.
C7_Witness ==
    /\ prog.name = "UndefinedAssign"
    /\ status = "fatal"
    /\ Len(heap) >= 2
    /\ control.c = "ret"
    /\ Top.k = "VisitAssignExpr"
    /\ \A e \in 1..Len(heap) : "y" \notin DOMAIN heap[e].values

\* The innermost scope of the chain from e that binds name.
RECURSIVE BindingScope(_, _, _)
BindingScope(h, e, name) ==
    IF name \in DOMAIN h[e].values THEN e ELSE BindingScope(h, h[e].enclosing, name)

\* C8: an assignment to a bound name changes the binding of the innermost
\* scope that binds it and nothing else, and the name then reads as the
\* value assigned.
C8_AssignInnermostBinding ==
    [][(Returning("VisitAssignExpr") /\ Binds(heap, environment, Top.expr.name)) =>
            LET name == Top.expr.name
                target == BindingScope(heap, environment, name)
            IN  /\ status' = "running"
                /\ Len(heap') = Len(heap)
                /\ environment' = environment
                /\ \A e \in 1..Len(heap) : e # target => heap'[e] = heap[e]
                /\ heap'[target].enclosing = heap[target].enclosing
                /\ DOMAIN heap'[target].values = DOMAIN heap[target].values
                /\ heap'[target].values[name] = control.val
                /\ \A x \in DOMAIN heap[target].values \ {name} :
                        heap'[target].values[x] = heap[target].values[x]
                /\ get(heap', environment', name) = control.val
                /\ control' = control
      ]_vars

\* AssignInner has run: x = a + b + 1 was executed in a block that does not
\* bind x, below a block that binds x = b, below the globals with x = a;
\* the two inner prints show the new value and the last one still a.
C8_Witness ==
    /\ prog.name = "AssignInner"
    /\ prog.nest = <<>>
    /\ status = "done"
    /\ output = <<SprintfV(prog.a + prog.b + 1), SprintfV(prog.a + prog.b + 1),
                  SprintfV(prog.a)>>

\* The names bound along the chain that starts at e.
RECURSIVE ChainNames(_, _)
ChainNames(h, e) ==
    IF e = 0 THEN {} ELSE DOMAIN h[e].values \cup ChainNames(h, h[e].enclosing)

\* A user-defined function is about to be called with as many arguments as
\* it has parameters.
FunctionCalled ==
    /\ CallReady
    /\ CallOperands.callee.t = "fun"
    /\ Len(CallOperands.arguments) = Len(CallOperands.callee.declaration.params)

\* C9: a call of a user-defined function allocates exactly one Environment,
\* whose parent is the closure of the function and which binds the i-th
\* parameter to the i-th argument and nothing else, and makes it current:
\* the names visible in the body are the parameters and those of the
\* closure's chain, whatever the caller's scopes bind.  So CallerLocal ends
\* in an error at `print y` after it printed its two arguments in order,
\* and g() of LexicalScope reads the global y = a in every block.
C9_CallScopeIsClosureChild ==
    /\ [][FunctionCalled =>
            LET f == CallOperands.callee
                params == f.declaration.params
                new == Len(heap) + 1
            IN  /\ Len(heap') = new
                /\ \A e \in 1..Len(heap) : heap'[e] = heap[e]
                /\ heap'[new].enclosing = f.closure
                /\ DOMAIN heap'[new].values = {params[i] : i \in 1..Len(params)}
                /\ \A i \in 1..Len(params) :
                        heap'[new].values[params[i]] = CallOperands.arguments[i]
                /\ environment' = new
                /\ ChainNames(heap', environment') =
                        {params[i] : i \in 1..Len(params)} \cup ChainNames(heap, f.closure)
                /\ kont'[Len(kont')].k = "executeBlock"
                /\ kont'[Len(kont')].statements = f.declaration.body
                /\ kont'[Len(kont')].previous = environment
         ]_vars
    /\ [](/\ (prog.name = "CallerLocal" /\ status # "running") =>
                /\ status = "fatal"
                /\ output = <<SprintfV(prog.a), SprintfV(prog.b)>>
          /\ prog.name = "LexicalScope" =>
                /\ status \in {"running", "done"}
                /\ \A i \in 1..Len(output) : output[i] = SprintfV(prog.a))

\* g(a, b) was called from a block that binds y: the body printed a then b
\* and `print y` failed, with y bound in the caller's block.
C9_Witness ==
    /\ prog.name = "CallerLocal"
    /\ prog.a # prog.b
    /\ status = "fatal"
    /\ output = <<SprintfV(prog.a), SprintfV(prog.b)>>
    /\ \E e \in 1..Len(heap) : "y" \in DOMAIN heap[e].values
    /\ ~Binds(heap, environment, "y")

\* The number of parameters a callee value declares.
DeclaredArity(callee) ==
    IF callee.t = "fun" THEN Len(callee.declaration.params) ELSE 0

\* C10: when the callee and the arguments of a call are evaluated, the body
\* is entered only for a Callable called with as many arguments as it
\* declares; every other call ends the run with a runtime error before any
\* statement of the body.  So Arity prints "body" only when called with one
\* argument, and prints nothing otherwise.
C10_CallChecksCalleeAndArity ==
    /\ [][CallReady =>
            IF /\ CallOperands.callee.t \in {"fun", "clock"}
               /\ Len(CallOperands.arguments) = DeclaredArity(CallOperands.callee)
            THEN /\ status' = "running"
                 /\ CallOperands.callee.t = "fun" =>
                        /\ kont'[Len(kont')].k = "executeBlock"
                        /\ kont'[Len(kont')].statements =
                                CallOperands.callee.declaration.body
                        /\ kont'[Len(kont')].idx = 0
            ELSE /\ status' = "fatal"
                 /\ UNCHANGED <<heap, environment, control, kont, output>>
         ]_vars
    /\ [](/\ (prog.name = "Arity" /\ status # "running") =>
                IF prog.a = 1
                THEN status = "done" /\ output = <<"body", SprintfV(1 + prog.b), "after">>
                ELSE status = "fatal" /\ output = <<>>
          /\ (prog.name \in {"NotCallable", "ClockArity"} /\ status = "done") =>
                (prog.name = "ClockArity" /\ prog.a = 0))

\* f, which declares one parameter, was called with two arguments: the run
\* has ended in the arity error and "body" was not printed.
C10_Witness ==
    /\ prog.name = "Arity"
    /\ prog.a = 2
    /\ status = "fatal"
    /\ control.c = "ret"
    /\ Top.k = "VisitCallExpr"
    /\ Len(CallOperands.arguments) = 2
    /\ output = <<>>

\* C11: a return executed at top level, outside every function, is rejected:
\* the top-level statements that follow it are not executed.  In
\* TopLevelReturn the line "after" is never printed.
C11_TopLevelReturnRejected ==
    prog.name = "TopLevelReturn" =>
        \A i \in 1..Len(output) : output[i] # "after"

\* C12: a print statement whose expression evaluated to Nil or to a string
\* writes one line (the string itself for a string) and execution goes on
\* with the next statement, whatever the form of the printed expression.
C12_PrintNilOrString ==
    [][(Returning("VisitPrintStmt") /\ control.val.t \in {"nil", "str"}) =>
            /\ status' = "running"
            /\ Len(output') = Len(output) + 1
            /\ SubSeq(output', 1, Len(output)) = output
            /\ control.val.t = "str" => output'[Len(output')] = control.val.s
            /\ control' = Ret(Nil)
            /\ kont' = Pop
      ]_vars

\* C13: `+` of two numbers is their sum, of two strings their concatenation,
\* of a string and a number (in either order) the concatenation of the
\* string with the number's text, in operand order; every other pair of
\* operand types ends in a runtime error.
C13_PlusOverloads ==
    [][(Returning("VisitBinaryExpr") /\ Top.haveLeft /\ Top.expr.operator = "PLUS") =>
            LET l == Top.left
                r == control.val
            IN  CASE l.t = "num" /\ r.t = "num" ->
                        status' = "running" /\ control' = Ret(Num(l.n + r.n))
                  [] l.t = "str" /\ r.t = "str" ->
                        status' = "running" /\ control' = Ret(Str(l.s \o r.s))
                  [] l.t = "str" /\ r.t = "num" ->
                        status' = "running" /\ control' = Ret(Str(l.s \o NatText(r.n)))
                  [] l.t = "num" /\ r.t = "str" ->
                        status' = "running" /\ control' = Ret(Str(NatText(l.n) \o r.s))
                  [] OTHER ->
                        status' = "fatal" /\ heap' = heap /\ output' = output
      ]_vars

\* "a" + 1 has been evaluated to the string "a1".
C13_Witness ==
    /\ prog.name = "PlusPair"
    /\ Operand(prog.a) = S("a")
    /\ Operand(prog.b) = N(1)
    /\ control = Ret(Str("a1"))
    /\ Top.k = "VisitVarStmt"

\* C14: `/` of two numbers ends in a runtime error when either operand is
\* zero and yields the quotient when both are non-zero.
C14_DivisionZeroOperand ==
    [][(/\ Returning("VisitBinaryExpr")
        /\ Top.haveLeft
        /\ Top.expr.operator = "SLASH"
        /\ Top.left.t = "num"
        /\ control.val.t = "num") =>
            LET l == Top.left.n
                r == control.val.n
            IN  IF l = 0 \/ r = 0
                THEN status' = "fatal" /\ heap' = heap /\ output' = output
                ELSE /\ status' = "running"
                     /\ kont' = Pop
                     /\ control'.c = "ret"
                     /\ control'.val.t = "num"
                     /\ IF l % r = 0
                        THEN control'.val.n * r = l
                        ELSE control'.val.n = l /\ control'.val.over = r
      ]_vars

\* 0 / 2 has ended the run in the division error.
C14_Witness ==
    /\ prog.name = "SlashPair"
    /\ Operand(prog.a) = N(0)
    /\ Operand(prog.b) = N(2)
    /\ status = "fatal"
    /\ control = Ret(Num(2))
    /\ Top.k = "VisitBinaryExpr"
    /\ Top.left = Num(0)

\* Both Nil, or of the same type and of equal value (a function or the
\* native clock is equal to itself only).
SameValue(l, r) ==
    /\ l.t = r.t
    /\ CASE l.t = "nil" -> TRUE
         [] l.t = "num" -> l.n = r.n
         [] l.t = "str" -> l.s = r.s
         [] l.t = "bool" -> l.b = r.b
         [] l.t = "fun" -> l.id = r.id
         [] OTHER -> TRUE

\* C15: `==` of any two values raises no error and is true exactly when
\* both are Nil or both have the same type and equal value; `!=` is its
\* negation.  EqualPair prints "true"/"false" accordingly and reaches
\* "after" for every pair of operands.
C15_EqualityTotal ==
    /\ [][(/\ Returning("VisitBinaryExpr")
           /\ Top.haveLeft
           /\ Top.expr.operator \in {"EQUAL_EQUAL", "BANG_EQUAL"}) =>
                /\ status' = "running"
                /\ kont' = Pop
                /\ control' = Ret(Bool(IF Top.expr.operator = "EQUAL_EQUAL"
                                       THEN SameValue(Top.left, control.val)
                                       ELSE ~SameValue(Top.left, control.val)))
         ]_vars
    /\ [](prog.name = "EqualPair" =>
            /\ status \in {"running", "done"}
            /\ status = "done" =>
                /\ Len(output) = 3
                /\ output[1] # output[2]
                /\ {output[1], output[2]} = {"true", "false"}
                /\ output[3] = "after")

\* 1 == "1" printed false and 1 != "1" printed true.
C15_Witness ==
    /\ prog.name = "EqualPair"
    /\ Operand(prog.a) = N(1)
    /\ Operand(prog.b) = S("1")
    /\ status = "done"
    /\ output = <<"false", "true", "after">>

\* Nil and the Boolean false.
Falsey(v) == v.t = "nil" \/ (v.t = "bool" /\ ~v.b)

\* C16: `a or b` evaluates b only when a is falsey, `a and b` only when a is
\* truthy, and the value of the expression is the value of the last operand
\* evaluated, as it is.  In ShortCircuit the assignments n = 1 and m = 2 in
\* the right operands happen exactly in those cases, and r and q hold x or
\* the value assigned.
C16_ShortCircuit ==
    /\ [][Returning("VisitLogicalExpr") =>
            /\ status' = "running"
            /\ kont' = Pop
            /\ heap' = heap
            /\ IF Falsey(control.val) = (Top.expr.operator = "OR")
               THEN control' = Eval(Top.expr.right)
               ELSE control' = control
         ]_vars
    /\ []((prog.name = "ShortCircuit" /\ status = "done") =>
            LET g == heap[globals].values
            IN  /\ g["r"] = IF Falsey(g["x"]) THEN Num(1) ELSE g["x"]
                /\ g["n"] = IF Falsey(g["x"]) THEN Num(1) ELSE Num(0)
                /\ g["q"] = IF Falsey(g["x"]) THEN g["x"] ELSE Num(2)
                /\ g["m"] = IF Falsey(g["x"]) THEN Num(0) ELSE Num(2))

\* With x = 0 (truthy): `x or (n = 1)` is 0 and n is still 0, `x and (m = 2)`
\* is 2 and m is 2.
C16_Witness ==
    /\ prog.name = "ShortCircuit"
    /\ Operand(prog.a) = N(0)
    /\ status = "done"
    /\ heap[globals].values["r"] = Num(0)
    /\ heap[globals].values["n"] = Num(0)
    /\ heap[globals].values["q"] = Num(2)
    /\ heap[globals].values["m"] = Num(2)

\* C17: every value has a truthiness: Nil and false are falsey, everything
\* else (0, "", functions, the native clock) is truthy, and `if`, `while`
\* and `!` all decide by it: if takes the then branch exactly for a truthy
\* condition, while runs its body exactly for a truthy condition, and !v is
\* true exactly for a falsey v.
C17_Truthiness ==
    /\ [][/\ Returning("VisitIfStmt") =>
                /\ status' = "running"
                /\ kont' = Pop
                /\ control' = IF ~Falsey(control.val) THEN Exec(Top.stmt.thenBranch)
                              ELSE IF Top.stmt.elseBranch # NoStmt
                              THEN Exec(Top.stmt.elseBranch)
                              ELSE Ret(Nil)
          /\ (Returning("VisitWhileStmt") /\ ~Top.inBody) =>
                /\ status' = "running"
                /\ IF ~Falsey(control.val)
                   THEN control' = Exec(Top.stmt.body) /\ Len(kont') = Len(kont)
                   ELSE control'.c = "ret" /\ kont' = Pop
          /\ (Returning("VisitUnaryExpr") /\ Top.expr.operator = "BANG") =>
                /\ status' = "running"
                /\ kont' = Pop
                /\ control' = Ret(Bool(Falsey(control.val)))
         ]_vars
    /\ [](prog.name = "Truthy" =>
            /\ status \in {"running", "done"}
            /\ status = "done" =>
                output = IF prog.a \in {0, 2}
                         THEN <<"else", "true", "after">>
                         ELSE <<"then", "false", "loop", "after">>)

\* The number 0 is truthy: then, !0 is false, and the loop body ran.
C17_Witness ==
    /\ prog.name = "Truthy"
    /\ Operand(prog.a) = N(0)
    /\ status = "done"
    /\ output = <<"then", "false", "loop", "after">>

\* A block comment starts at the scanner's cursor, at a token boundary.
BlockCommentStarts ==
    /\ pc = "ScanTokens"
    /\ status = "running"
    /\ scanner.current + 1 < Len(scanner.source)
    /\ charAt(scanner.source, scanner.current) = "/"
    /\ charAt(scanner.source, scanner.current + 1) = "*"

\* The positions behind the opening /* at which the two characters */ stand.
Closings ==
    {i \in (scanner.current + 2)..(Len(scanner.source) - 2) :
        charAt(scanner.source, i) = "*" /\ charAt(scanner.source, i + 1) = "/"}

\* C18: a block comment is skipped as a block: from the /* the scanner moves
\* to the character right behind the first */ that follows, and adds no
\* token.
C18_BlockCommentSkipped ==
    [][(BlockCommentStarts /\ Closings # {}) =>
            /\ status' = "running"
            /\ scanner'.tokens = scanner.tokens
            /\ \E i \in Closings :
                    /\ \A j \in Closings : i <= j
                    /\ scanner'.current = i + 2
      ]_vars

\* The lexemes of toks[k..] stand in source at or behind position pos, one
\* behind the other in the order of the tokens (each at its earliest place).
RECURSIVE LexemesInOrder(_, _, _, _)
LexemesInOrder(source, toks, k, pos) ==
    IF k > Len(toks) THEN TRUE
    ELSE LET lexeme == toks[k].lexeme
             places == {p \in pos..(Len(source) - Len(lexeme)) :
                            SubSeq(source, p + 1, p + Len(lexeme)) = lexeme}
         IN  /\ places # {}
             /\ \E p \in places :
                    /\ \A q \in places : p <= q
                    /\ LexemesInOrder(source, toks, k + 1, p + Len(lexeme))

\* C19: when ScanTokens has returned, the tokens hold exactly one EOF token,
\* as their last element, and the tokens in front of it are non-empty
\* lexemes of the source in the order in which they stand there.  (While
\* the scan is running no EOF token has been added.)
C19_TokensEndInEOF ==
    LET toks == scanner.tokens
        body == SubSeq(toks, 1, Len(toks) - 1)
    IN  /\ pc = "ScanTokens" => \A i \in 1..Len(toks) : toks[i].tokenType # "EOF"
        /\ pc # "ScanTokens" =>
            /\ Len(toks) >= 1
            /\ toks[Len(toks)].tokenType = "EOF"
            /\ \A i \in 1..Len(body) : body[i].tokenType # "EOF" /\ body[i].lexeme # <<>>
            /\ LexemesInOrder(scanner.source, body, 1, 0)

\* `a=1.` was scanned to IDENTIFIER, EQUAL, NUMBER, DOT, EOF.
C19_Witness ==
    /\ pc = "Parse"
    /\ scanner.source = <<"a", "=", "1", ".">>
    /\ Len(scanner.tokens) = 5
    /\ [i \in 1..5 |-> scanner.tokens[i].tokenType] =
            <<"IDENTIFIER", "EQUAL", "NUMBER", "DOT", "EOF">>
    /\ [i \in 1..4 |-> scanner.tokens[i].lexeme] = <<<<"a">>, <<"=">>, <<"1">>, <<".">>>>

\* The characters with which a token, a comment or white space starts.
StartsToken(c) ==
    \/ c \in {"(", ")", "{", "}", ",", ".", "-", "+", ";", "*", "!", "=", "<", ">",
              "/", " ", "\r", "\t", "\n", "\""}
    \/ c \in {"0", "1", "2", "3", "4", "5", "6", "7", "8", "9"}
    \/ isAlpha(c)

\* The scanner stands, at a token boundary, on a character that starts no
\* token, or on the opening quote of a string that is never closed.
ScanErrorAhead ==
    /\ pc = "ScanTokens"
    /\ status = "running"
    /\ scanner.current < Len(scanner.source)
    /\ LET c == charAt(scanner.source, scanner.current)
       IN  \/ ~StartsToken(c)
           \/ /\ c = "\""
              /\ \A i \in (scanner.current + 1)..(Len(scanner.source) - 1) :
                    charAt(scanner.source, i) # "\""

\* C20: an unterminated string, and a character that starts no token, end
\* the scan in an error: the process exits inside ScanTokens, which adds no
\* token (no EOF either) and returns nothing, and run never reaches the
\* parser or the interpreter.
C20_ScanErrorHalts ==
    [][/\ ScanErrorAhead =>
            /\ status' = "fatal"
            /\ pc' = "ScanTokens"
            /\ scanner'.tokens = scanner.tokens
       /\ (pc = "ScanTokens" /\ status # "running") =>
            /\ pc' = pc
            /\ status' = status
            /\ scanner' = scanner
      ]_vars

\* `1"a`: the number was scanned, then the string without its closing quote
\* ended the run inside ScanTokens.
C20_Witness ==
    /\ scanner.source = <<"1", "\"", "a">>
    /\ status = "fatal"
    /\ pc = "ScanTokens"
    /\ Len(scanner.tokens) = 1
    /\ scanner.tokens[1].tokenType = "NUMBER"

---------------------------------------------------------------------------
(* The parser.                                                             *)

\* The nodes of the clauses of ForStatement(initializer, condition, increment,
\* body), written out by hand.
ForClauseNodes ==
    [var |-> VarStmt(Tok("IDENTIFIER"), LiteralExpr(Num(1))),
     expr |-> ExpressionStmt(AssignExpr(Tok("IDENTIFIER"), LiteralExpr(Num(1)))),
     condition |-> BinaryExpr(VariableExpr(Tok("IDENTIFIER")), Tok("LESS"),
                              LiteralExpr(Num(1))),
     increment |-> AssignExpr(Tok("IDENTIFIER"),
                              BinaryExpr(VariableExpr(Tok("IDENTIFIER")), Tok("PLUS"),
                                         LiteralExpr(Num(1)))),
     print |-> PrintStmt(VariableExpr(Tok("IDENTIFIER"))),
     block |-> BlockStmt(<<PrintStmt(VariableExpr(Tok("IDENTIFIER")))>>)]

\* Block[init, While(cond, Block[body, ExpressionStmt(incr)])], with true for
\* a condition left out, the bare body for an increment left out and no outer
\* block for an initializer left out.
Desugared(initializer, condition, increment, body) ==
    LET inner == IF increment = "none" THEN ForClauseNodes[body]
                 ELSE BlockStmt(<<ForClauseNodes[body],
                                  ExpressionStmt(ForClauseNodes.increment)>>)
        loop == WhileStmt(IF condition = "none" THEN LiteralExpr(Bool(TRUE))
                          ELSE ForClauseNodes.condition,
                          inner)
    IN  IF initializer = "none" THEN loop
        ELSE BlockStmt(<<ForClauseNodes[initializer], loop>>)

\* C21: a for statement parses to its while form and to no other node: for
\* every choice of the clauses present, Parse returns exactly the statement
\* Block[init, While(cond, Block[body, ExpressionStmt(incr)])], the increment
\* behind the body, true for a missing condition, the body unwrapped for a
\* missing increment and no outer block for a missing initializer.
C21_ForDesugared ==
    \A i \in DOMAIN ForInitializers, c \in DOMAIN ForConditions,
       n \in DOMAIN ForIncrements, b \in DOMAIN ForBodies :
        parser.tokens = Toks(Append(ForStatement(i, c, n, b), "EOF"))
        => /\ pc = "Parse" => status = "running"
           /\ pc # "Parse" => parsed = <<Desugared(i, c, n, b)>>

\* for (var a = 1; a < 1; a = a + 1) print a;  has been parsed
C21_Witness ==
    /\ parser.tokens = Toks(Append(ForStatement("var", "expr", "expr", "print"), "EOF"))
    /\ pc = "Interpret"
    /\ parsed = <<BlockStmt(<<
            VarStmt(Tok("IDENTIFIER"), LiteralExpr(Num(1))),
            WhileStmt(BinaryExpr(VariableExpr(Tok("IDENTIFIER")), Tok("LESS"),
                                 LiteralExpr(Num(1))),
                      BlockStmt(<<PrintStmt(VariableExpr(Tok("IDENTIFIER"))),
                                  ExpressionStmt(AssignExpr(Tok("IDENTIFIER"),
                                      BinaryExpr(VariableExpr(Tok("IDENTIFIER")),
                                                 Tok("PLUS"), LiteralExpr(Num(1)))))>>))>>)>>


\* C22: `lhs = 1;` parses to the Assign node of lhs only when lhs is a
\* variable; for a literal, a grouping, a unary, a binary or a logical
\* expression (or an assignment to one) on the left the parse ends in the
\* error "Invalid assignment target." and Parse returns no statements.
C22_AssignmentTarget ==
    \A t \in DOMAIN Targets :
        parser.tokens = Toks(Append(Assignment(t), "EOF"))
        => IF t = "variable"
           THEN /\ reported = <<>>
                /\ pc = "Parse" => status = "running"
                /\ pc # "Parse" =>
                    parsed = <<ExpressionStmt(AssignExpr(Tok("IDENTIFIER"),
                                                         LiteralExpr(Num(1))))>>
           ELSE /\ pc = "Parse"
                /\ parsed = <<>>
                /\ status = "running" => parser.current = 0
                /\ status # "running" =>
                    /\ status = "fatal"
                    /\ reported = <<[line |-> 1, message |-> "Invalid assignment target."]>>

\* a + 1 = 1;  has ended the parse
C22_Witness ==
    /\ parser.tokens = Toks(<<"IDENTIFIER", "PLUS", "NUMBER", "EQUAL", "NUMBER",
                              "SEMICOLON", "EOF">>)
    /\ status = "fatal"
    /\ parsed = <<>>
    /\ reported = <<[line |-> 1, message |-> "Invalid assignment target."]>>


\* The parse of the tokens has ended: Parse has returned or the process has
\* exited in it.
ParseEnded == pc # "Parse" \/ status # "running"

\* C23: the parser recovers from a syntax error and goes on, so that of two
\* malformed statements in one token list both errors are reported by the
\* one parse.
C23_BothErrorsReported ==
    \A m, n \in DOMAIN Malformed :
        parser.tokens = Toks(Append(Malformed[m] \o Malformed[n], "EOF")) /\ ParseEnded
        => Len(reported) = 2


\* The statement keywords at which synchronize is to stop.
StatementKeywords == {"CLASS", "FUN", "VAR", "IF", "WHILE", "PRINT", "RETURN"}

\* Position c of the tokens is a statement boundary: the token just consumed
\* is `;`, or the next token is a statement keyword or EOF.
Boundary(tokens, c) ==
    \/ c > 0 /\ tokens[c].tokenType = "SEMICOLON"
    \/ tokens[c + 1].tokenType \in StatementKeywords \cup {"EOF"}

\* C26: synchronize discards the token at hand and then tokens up to the
\* first statement boundary (a `;` just consumed, or class, fun, var, if,
\* while, print, return or EOF next) and stops there.
C26_SynchronizeStopsAtBoundary ==
    [][Parser_synchronize /\ status' = "running"
        => LET tokens == parser.tokens
               first == IF tokens[parser.current + 1].tokenType = "EOF"
                        THEN parser.current ELSE parser.current + 1
               c == parser'.current
           IN  /\ parser'.tokens = tokens
               /\ c >= first
               /\ Boundary(tokens, c)
               /\ \A k \in first..(c - 1) : ~Boundary(tokens, k)]_vars


---------------------------------------------------------------------------
(* Runtime errors.                                                         *)

\* The node being evaluated fails with a runtime error: an undefined
\* variable is read or assigned, an operand has the wrong type, a division
\* has a zero operand, or a call has a callee that is no Callable or the
\* wrong number of arguments.
RuntimeError ==
    \/ Evaluating("Variable") /\ ~Binds(heap, environment, control.expr.name)
    \/ Returning("VisitAssignExpr") /\ ~Binds(heap, environment, Top.expr.name)
    \/ /\ Returning("VisitUnaryExpr")
       /\ Top.expr.operator = "MINUS"
       /\ control.val.t # "num"
    \/ /\ Returning("VisitBinaryExpr")
       /\ Top.haveLeft
       /\ LET types == <<Top.left.t, control.val.t>>
          IN  \/ /\ Top.expr.operator \in {"MINUS", "STAR", "SLASH", "GREATER",
                                           "GREATER_EQUAL", "LESS", "LESS_EQUAL"}
                 /\ types # <<"num", "num">>
              \/ /\ Top.expr.operator = "PLUS"
                 /\ types \notin {"num", "str"} \X {"num", "str"}
              \/ /\ Top.expr.operator = "SLASH"
                 /\ types = <<"num", "num">>
                 /\ Top.left.n = 0 \/ control.val.n = 0
    \/ /\ CallReady
       /\ \/ CallOperands.callee.t \notin {"fun", "clock"}
          \/ Len(CallOperands.arguments) # DeclaredArity(CallOperands.callee)

\* What a halted evaluation leaves alone: the statement and expression at
\* hand, the call stack, every Environment and the output.
Evaluation == <<heap, globals, environment, control, kont, output, nextFn>>

\* C24: a runtime error halts the evaluation at once: the step of the
\* failing node ends the run and changes no binding and writes no output,
\* and nothing runs, is printed or is bound after it.
C24_RuntimeErrorHalts ==
    /\ [][RuntimeError => status' = "fatal" /\ UNCHANGED Evaluation]_vars
    /\ [][status = "fatal" => status' = "fatal" /\ UNCHANGED Evaluation]_vars

\* "text" - 1 has failed in the second of the three statements of TypeError:
\* the declaration has run, nothing was printed and print "after" is left.
C24_Witness ==
    /\ prog.name = "TypeError"
    /\ prog.a = 1
    /\ status = "fatal"
    /\ kont[1].k = "Interpret"
    /\ kont[1].idx = 2
    /\ output = <<>>
    /\ Binds(heap, environment, "s")


---------------------------------------------------------------------------
(* Recursion.                                                              *)

\* <<F(n), F(n + 1)>> of the Fibonacci numbers F(0) = 0, F(1) = 1,
\* F(n + 2) = F(n) + F(n + 1), counted up from <<0, 1>>.
RECURSIVE FibonacciPair(_)
FibonacciPair(n) ==
    IF n = 0 THEN <<0, 1>>
    ELSE LET before == FibonacciPair(n - 1) IN <<before[2], before[1] + before[2]>>

\* C25: fun fib(n) { if (n <= 1) return n; return fib(n-1) + fib(n-2); }
\* returns the n-th Fibonacci number: print fib(n); ends the run normally
\* with that number as its only output, and print fib(10); prints 55.
C25_FibReturnsFibonacci ==
    (prog.name = "Fib" /\ status # "running") =>
        /\ status = "done"
        /\ output = <<SprintfV(FibonacciPair(prog.a)[1])>>
        /\ prog.a = 10 => output = <<"55">>

\* print fib(10); has printed 55.
C25_Witness ==
    /\ prog.name = "Fib"
    /\ prog.a = 10
    /\ status = "done"
    /\ output = <<"55">>


---------------------------------------------------------------------------
(* break outside a loop.                                                   *)

\* No VisitWhileStmt is among the first n activations of the call stack.
NoLoopIn(n) == \A j \in 1..n : kont[j].k # "VisitWhileStmt"

\* C28: a break executed while no while loop is active is caught by nothing:
\* its panic leaves one activation after the other, restoring nothing but
\* the environment, and leaves Interpret, which ends the process in the
\* panic: it is not reported as an error of the program and the statements
\* behind it do not run.
C28_BreakOutsideLoopPanics ==
    /\ [][(Executing("Break") /\ NoLoopIn(Len(kont))) =>
            /\ control' = Panic("BreakError", Len(kont))
            /\ status' = "running"]_vars
    /\ [][(BreakPanic /\ NoLoopIn(control.at)) =>
            /\ output' = output
            /\ heap' = heap
            /\ IF control.at = 0
               THEN status' = "panic"
               ELSE /\ status' = "running"
                    /\ control' = Panic("BreakError", control.at - 1)]_vars
    /\ []((prog.name = "BreakOutside" /\ \A i \in 1..Len(prog.nest) : prog.nest[i] # "while")
            => /\ status \in {"running", "panic"}
               /\ \A i \in 1..Len(output) : output[i] = "before")

\* The break of f, called from the top level inside no loop, has ended the
\* process in its panic after "before" was printed.
C28_Witness ==
    /\ prog.name = "BreakOutside"
    /\ prog.a = 1
    /\ prog.nest = <<"if">>
    /\ status = "panic"
    /\ control = Panic("BreakError", 0)
    /\ output = <<"before">>


---------------------------------------------------------------------------
(* The line counter.                                                       *)

\* The number of newline characters among the first n characters of source.
Newlines(source, n) == Cardinality({i \in 1..n : source[i] = "\n"})

\* C27: the line of every token the scanner adds is 1 plus the number of
\* newlines of the source up to the end of the token's lexeme, and the line
\* of the EOF token is 1 plus the number of newlines of the whole source,
\* those inside comments and strings included.
C27_LineCountsNewlines ==
    [][\A k \in (Len(scanner.tokens) + 1)..Len(scanner'.tokens) :
            scanner'.tokens[k].line = 1 + Newlines(scanner.source, scanner'.current)]_vars


---------------------------------------------------------------------------
(* The prompt.                                                             *)

\* The Environments the Interpreter at work can reach are those made since
\* its globals: its environment, the scopes of the blocks and calls on the
\* call stack, and every enclosing scope and closure of these.
OwnEnvironments == {0} \cup globals..Len(heap)

\* C29: every call of run evaluates its line against a new global
\* Environment that binds clock and nothing else, and reaches no Environment
\* of an earlier call: what one line defines is not bound in any later line,
\* so a later line that reads such a name ends in the error of an undefined
\* variable.
C29_RunStartsFromFreshGlobals ==
    /\ [][runs' # runs =>
            /\ runs' = runs + 1
            /\ globals' = Len(heap) + 1
            /\ Len(heap') = Len(heap) + 1
            /\ environment' = globals'
            /\ heap'[globals'].enclosing = 0
            /\ DOMAIN heap'[globals'].values = {"clock"}]_vars
    /\ [](/\ environment \in OwnEnvironments
          /\ \A e \in globals..Len(heap) :
                /\ heap[e].enclosing \in OwnEnvironments
                /\ \A name \in DOMAIN heap[e].values :
                        heap[e].values[name].t = "fun" =>
                            heap[e].values[name].closure \in OwnEnvironments
          /\ \A j \in 1..Len(kont) :
                kont[j].k = "executeBlock" =>
                    {kont[j].environment, kont[j].previous} \subseteq OwnEnvironments)
    /\ []((runs > 1 /\ prog.name = "Probe" /\ status # "running") =>
            IF ProbeNames[prog.a + 1] = "clock"
            THEN status = "done"
            ELSE status = "fatal")

\* The first line has defined x, get and set and the second line, print x;,
\* has ended in the error of the undefined variable x.
C29_Witness ==
    /\ runs = 2
    /\ prog.name = "Probe"
    /\ ProbeNames[prog.a + 1] = "x"
    /\ status = "fatal"
    /\ "x" \in DOMAIN heap[1].values
    /\ "x" \notin DOMAIN heap[globals].values

=============================================================================
